---------------------------- MODULE Spec2Model ----------------------------
(***************************************************************************)
(* A model of the scrapling-mcp server (mcp_scraper): the retry/stealth    *)
(* orchestration of stealth.py (scrape_with_retry, validate_url, the       *)
(* page classifiers, the stealth presets) and the tool handlers of         *)
(* server.py (scrape_simple, scrape_stealth, scrape_session,               *)
(* extract_structured, scrape_batch).                                      *)
(*                                                                         *)
(* The external engine (scrapling's AsyncStealthySession) is an opaque     *)
(* collaborator: each of its calls is a nondeterministic choice among the  *)
(* outcomes it can produce (a value, asyncio.TimeoutError, another         *)
(* exception).  Every await of the code is one action of the model.        *)
(*                                                                         *)
(* A behaviour is one call of scrape_with_retry, or one call of a tool, or *)
(* up to MaxCalls calls of scrape_session in a row (the session registry   *)
(* outlives a call; the other operations neither read nor write it and are *)
(* followed from the initial registry).  Inside a tool,                    *)
(* `await scrape_with_retry(...)` is one step whose result ranges over     *)
(* ScrapeOutcomes: a page, one of the errors scrape_with_retry raises, or  *)
(* another exception the tool's except clauses provide for.                *)
(*                                                                         *)
(* The process starts before mcp.run() and may end with the signal handler *)
(* that main installs; _cleanup_on_shutdown may be awaited between two     *)
(* calls.  In Spec the calls are made one after the other.                 *)
(*                                                                         *)
(* Spec is the server.  Pure applies the functions that read nothing but   *)
(* their arguments (validate_url, _extract_single_selector,                *)
(* format_response, the preset constructors) to inputs drawn from bounded  *)
(* sets.  Retry is scrape_with_retry under fair scheduling of its awaits.  *)
(* Concurrent is the session registry used by MaxTasks asyncio tasks whose *)
(* calls of scrape_session, get_session and close_session interleave at    *)
(* their awaits.                                                           *)
(***************************************************************************)
EXTENDS Integers, Sequences, FiniteSets, TLC

(***************************************************************************)
(* Bounds of the model.                                                    *)
(***************************************************************************)
\* largest max_retries a call is given (the settings loader accepts 0..10)
MaxRetries == 3
\* largest proxy_list a call is given
MaxProxies == 3
\* longest urls list given to scrape_batch (the tool accepts 1..100)
MaxUrls == 3

\* calls of scrape_session in one behaviour
MaxCalls == 2
\* most elements an engine query returns
MaxMatches == 2

\* the most profiles the preset constructors are asked for in one behaviour
MaxProfiles == 2

\* asyncio tasks that use the session registry at the same time
MaxTasks == 2

\* calls of scrape_session, get_session and close_session the tasks make in all
MaxOps == 3

(***************************************************************************)
(* Python values.  None is the string "None" wherever a str | None is      *)
(* held.                                                                   *)
(***************************************************************************)
None == "None"

(***************************************************************************)
(* URLs.  A URL string is a key of UrlParse, which gives what              *)
(* urllib.parse.urlparse returns for it: the scheme and the netloc, the    *)
(* netloc as its sequence of tokens (labels and the separators . : @ [ ]). *)
(***************************************************************************)
UrlSamples ==
    { "https://example.com", "https://example.com/a?b=1", "http://93.184.216.34:8080",
      "http://localhost", "http://LOCALHOST:8000/x", "http://127.0.0.1",
      "http://10.0.0.5", "http://172.16.0.1", "http://192.168.1.1:80",
      "http://169.254.169.254/latest", "https://build.internal", "http://printer.local",
      "ftp://example.com", "file:///etc/passwd", "example.com", "http://", "", "   " }

UrlParse(u) ==
    CASE u = "https://example.com"           -> [scheme |-> "https", netloc |-> <<"example", ".", "com">>]
      [] u = "https://example.com/a?b=1"     -> [scheme |-> "https", netloc |-> <<"example", ".", "com">>]
      [] u = "http://93.184.216.34:8080"     -> [scheme |-> "http",  netloc |-> <<"93", ".", "184", ".", "216", ".", "34", ":", "8080">>]
      [] u = "http://localhost"              -> [scheme |-> "http",  netloc |-> <<"localhost">>]
      [] u = "http://LOCALHOST:8000/x"       -> [scheme |-> "http",  netloc |-> <<"LOCALHOST", ":", "8000">>]
      [] u = "http://127.0.0.1"              -> [scheme |-> "http",  netloc |-> <<"127", ".", "0", ".", "0", ".", "1">>]
      [] u = "http://10.0.0.5"               -> [scheme |-> "http",  netloc |-> <<"10", ".", "0", ".", "0", ".", "5">>]
      [] u = "http://172.16.0.1"             -> [scheme |-> "http",  netloc |-> <<"172", ".", "16", ".", "0", ".", "1">>]
      [] u = "http://192.168.1.1:80"         -> [scheme |-> "http",  netloc |-> <<"192", ".", "168", ".", "1", ".", "1", ":", "80">>]
      [] u = "http://169.254.169.254/latest" -> [scheme |-> "http",  netloc |-> <<"169", ".", "254", ".", "169", ".", "254">>]
      [] u = "https://build.internal"        -> [scheme |-> "https", netloc |-> <<"build", ".", "internal">>]
      [] u = "http://printer.local"          -> [scheme |-> "http",  netloc |-> <<"printer", ".", "local">>]
      [] u = "ftp://example.com"             -> [scheme |-> "ftp",   netloc |-> <<"example", ".", "com">>]
      [] u = "file:///etc/passwd"            -> [scheme |-> "file",  netloc |-> <<>>]
      [] u = "http://"                       -> [scheme |-> "http",  netloc |-> <<>>]
      [] OTHER                               -> [scheme |-> "",      netloc |-> <<>>]

\* str.lower() of one token
Lower(tok) == IF tok = "LOCALHOST" THEN "localhost" ELSE tok

\* parsed.netloc.split(":")[0].lower(): the tokens before the first ":"
Hostname(netloc) ==
    LET colons == {i \in DOMAIN netloc : netloc[i] = ":"}
        upto   == IF colons = {} THEN Len(netloc)
                  ELSE (CHOOSE i \in colons : \A j \in colons : i <= j) - 1
    IN  [i \in 1..upto |-> Lower(netloc[i])]

localhost_patterns ==
    { <<"localhost">>, <<"127", ".", "0", ".", "0", ".", "1">>, <<":", ":", "1">>,
      <<"0", ".", "0", ".", "0", ".", "0">>, <<":", ":">>,
      <<"localhost", ".", "localdomain">> }

\* re.match of the private_patterns: ^10\. ^172\.(1[6-9]|2[0-9]|3[0-1])\. ^192\.168\.
\* ^169\.254\. ^127\.
MatchesPrivate(h) ==
    LET At(i, tok) == Len(h) >= i /\ h[i] = tok
        second172  == {"16", "17", "18", "19", "20", "21", "22", "23", "24", "25",
                       "26", "27", "28", "29", "30", "31"}
    IN  \/ At(1, "10") /\ At(2, ".")
        \/ At(1, "172") /\ At(2, ".") /\ Len(h) >= 4 /\ h[3] \in second172 /\ At(4, ".")
        \/ At(1, "192") /\ At(2, ".") /\ At(3, "168") /\ At(4, ".")
        \/ At(1, "169") /\ At(2, ".") /\ At(3, "254") /\ At(4, ".")
        \/ At(1, "127") /\ At(2, ".")

\* re.match of the internal_patterns: ^.*\.local$ ^.*\.internal$ ^.*\.corp$ ^.*\.lan$
MatchesInternal(h) ==
    /\ Len(h) >= 2
    /\ h[Len(h) - 1] = "."
    /\ h[Len(h)] \in {"local", "internal", "corp", "lan"}

\* validate_url from line 765 on: the tests made on what urlparse returned
ValidateParsed(parsed) ==
    LET hostname == Hostname(parsed.netloc)
    IN  /\ parsed.scheme \in {"http", "https"}
        /\ parsed.netloc # <<>>
        /\ hostname \notin localhost_patterns
        /\ ~MatchesPrivate(hostname)
        /\ ~MatchesInternal(hostname)

validate_url(u) == ValidateParsed(UrlParse(u))

(***************************************************************************)
(* URLs given by their parts, scheme://[userinfo@]host[:port][tail].  A    *)
(* host is the text that stands for it in the URL (an IPv6 address in      *)
(* brackets, or bare as some callers write it) with the kind of address or *)
(* name it is: the literal or the network of the address (RFC 1918, RFC    *)
(* 3927, RFC 1122), or "public-ipv4", "public-dns", "internal-dns",        *)
(* "localdomain" for the others.                                           *)
(***************************************************************************)
IPv4(a, b, c, e) == << a, ".", b, ".", c, ".", e >>

HostSamples ==
    { [text |-> << "localhost" >>,                       class |-> "localhost"],
      [text |-> << "LOCALHOST" >>,                       class |-> "localhost"],
      [text |-> << "localhost", ".", "localdomain" >>,   class |-> "localhost.localdomain"],
      [text |-> IPv4("127", "0", "0", "1"),              class |-> "127.0.0.1"],
      [text |-> IPv4("127", "1", "2", "3"),              class |-> "127.0.0.0/8"],
      [text |-> IPv4("0", "0", "0", "0"),                class |-> "0.0.0.0"],
      [text |-> << "[", ":", ":", "1", "]" >>,           class |-> "::1"],
      [text |-> << ":", ":", "1" >>,                     class |-> "::1"],
      [text |-> << "[", ":", ":", "]" >>,                class |-> "::"],
      [text |-> << ":", ":" >>,                          class |-> "::"],
      [text |-> IPv4("10", "0", "0", "5"),               class |-> "10.0.0.0/8"],
      [text |-> IPv4("10", "255", "255", "255"),         class |-> "10.0.0.0/8"],
      [text |-> IPv4("172", "16", "0", "1"),             class |-> "172.16.0.0/12"],
      [text |-> IPv4("172", "31", "255", "255"),         class |-> "172.16.0.0/12"],
      [text |-> IPv4("192", "168", "1", "1"),            class |-> "192.168.0.0/16"],
      [text |-> IPv4("169", "254", "169", "254"),        class |-> "169.254.0.0/16"],
      [text |-> IPv4("93", "184", "216", "34"),          class |-> "public-ipv4"],
      [text |-> IPv4("8", "8", "8", "8"),                class |-> "public-ipv4"],
      [text |-> IPv4("11", "0", "0", "1"),               class |-> "public-ipv4"],
      [text |-> IPv4("172", "15", "0", "1"),             class |-> "public-ipv4"],
      [text |-> IPv4("172", "32", "0", "1"),             class |-> "public-ipv4"],
      [text |-> IPv4("192", "167", "1", "1"),            class |-> "public-ipv4"],
      [text |-> IPv4("169", "253", "0", "1"),            class |-> "public-ipv4"],
      [text |-> << "example", ".", "com" >>,             class |-> "public-dns"],
      [text |-> << "www", ".", "example", ".", "org" >>, class |-> "public-dns"],
      [text |-> << "local", ".", "example", ".", "com" >>, class |-> "public-dns"],
      [text |-> << "10", ".", "example", ".", "com" >>,  class |-> "public-dns"],
      [text |-> << "127", ".", "example", ".", "org" >>, class |-> "public-dns"],
      [text |-> << "build", ".", "internal" >>,          class |-> "internal-dns"],
      [text |-> << "printer", ".", "local" >>,           class |-> "internal-dns"],
      [text |-> << "intra", ".", "corp" >>,              class |-> "internal-dns"],
      [text |-> << "nas", ".", "lan" >>,                 class |-> "internal-dns"],
      [text |-> << "foo", ".", "localdomain" >>,         class |-> "localdomain"] }

UrlParts ==
    [ scheme : {"http", "https", "ftp"}, userinfo : {"", "user"}, host : HostSamples,
      port : {"", "8080"}, tail : {"", "/a", "?q=1"} ]

\* urllib.parse.urlparse of such a URL: the netloc is all that stands between
\* the // and the first / or ?, the userinfo and the port included
urlparse(parts) ==
    [ scheme |-> parts.scheme,
      netloc |-> (IF parts.userinfo = "" THEN << >> ELSE << parts.userinfo, "@" >>)
                 \o parts.host.text
                 \o (IF parts.port = "" THEN << >> ELSE << ":", parts.port >>) ]

(***************************************************************************)
(* StealthConfig and its presets.                                          *)
(***************************************************************************)
StealthConfigDefaults ==
    [ headless |-> TRUE, solve_cloudflare |-> FALSE, humanize |-> TRUE,
      humanize_duration |-> "1.5", geoip |-> FALSE, os_randomize |-> TRUE,
      block_webrtc |-> TRUE, allow_webgl |-> FALSE, google_search |-> TRUE,
      block_images |-> FALSE, block_ads |-> TRUE, disable_resources |-> FALSE,
      network_idle |-> FALSE, load_dom |-> FALSE, wait_selector |-> None,
      wait_selector_state |-> None, timeout |-> 30, proxy |-> None ]

get_minimal_stealth ==
    [ StealthConfigDefaults EXCEPT
        !.headless = TRUE, !.solve_cloudflare = FALSE, !.humanize = FALSE,
        !.geoip = FALSE, !.os_randomize = FALSE, !.block_webrtc = FALSE,
        !.allow_webgl = FALSE, !.google_search = FALSE, !.block_images = TRUE,
        !.disable_resources = TRUE, !.timeout = 15, !.proxy = None ]

get_standard_stealth ==
    [ StealthConfigDefaults EXCEPT
        !.headless = TRUE, !.solve_cloudflare = FALSE, !.humanize = TRUE,
        !.geoip = FALSE, !.os_randomize = TRUE, !.block_webrtc = TRUE,
        !.allow_webgl = FALSE, !.google_search = TRUE, !.block_images = FALSE,
        !.disable_resources = FALSE, !.timeout = 30, !.proxy = None ]

get_maximum_stealth ==
    [ StealthConfigDefaults EXCEPT
        !.headless = TRUE, !.solve_cloudflare = TRUE, !.humanize = TRUE,
        !.geoip = TRUE, !.os_randomize = TRUE, !.block_webrtc = TRUE,
        !.allow_webgl = FALSE, !.google_search = TRUE, !.block_images = FALSE,
        !.disable_resources = FALSE, !.timeout = 60, !.proxy = None ]

\* StealthConfig.to_scrapling_options: the engine's option bag.  timeout is
\* converted from seconds to milliseconds; "proxy" is None when the key is absent;
\* keys holds the optional keys the bag carries.
to_scrapling_options(c) ==
    [ headless |-> c.headless,
      humanize |-> c.humanize,
      timeout  |-> c.timeout * 1000,
      proxy    |-> IF c.proxy # None /\ c.proxy # "" THEN c.proxy ELSE None,
      keys     |-> (IF c.solve_cloudflare THEN {"stealth"} ELSE {})
                   \cup (IF c.block_webrtc THEN {"block_webrtc"} ELSE {})
                   \cup (IF ~c.allow_webgl THEN {"webgl"} ELSE {})
                   \cup (IF c.google_search THEN {"browser"} ELSE {})
                   \cup (IF c.block_images THEN {"block_images"} ELSE {})
                   \cup (IF c.disable_resources THEN {"disable_resources"} ELSE {})
                   \cup (IF c.network_idle THEN {"network_idle"} ELSE {})
                   \cup (IF c.load_dom THEN {"load_dom"} ELSE {})
                   \cup (IF c.wait_selector # None THEN {"wait_selector"} ELSE {})
                   \cup (IF c.wait_selector_state # None THEN {"wait_selector_state"} ELSE {})
                   \cup (IF c.humanize_duration # "0" THEN {"humanize_duration"} ELSE {})
                   \cup (IF c.geoip THEN {"geoip"} ELSE {})
                   \cup (IF c.os_randomize THEN {"os_randomize"} ELSE {}) ]

(***************************************************************************)
(* Pages and the page classifiers.  A page body is modelled by the set of  *)
(* the signature phrases its lower-cased text contains.                    *)
(***************************************************************************)
cloudflare_indicators ==
    {"cloudflare", "checking your browser", "just a moment", "enable cookies", "ray id"}

block_indicators ==
    {"access denied", "forbidden", "rate limit", "blocked", "captcha", "please wait",
     "too many requests"}

\* the bodies the engine may return
PageBodies ==
    { {}, {"just a moment"}, {"access denied"}, {"cloudflare", "blocked"} }

_detect_cloudflare(p) == p.html \cap cloudflare_indicators # {}

_detect_block(p) == p.html \cap block_indicators # {}

NoPage == [attempt |-> -1, fetch |-> 0, html |-> {}]

(***************************************************************************)
(* Tool arguments.  A tool is called with JSON values of any type; a value *)
(* is a record of its Python type t and its content: n for a number (and   *)
(* for the length of a list given only by its length), s for a string,     *)
(* items for the items of a list and the key/value pairs of a dict.        *)
(***************************************************************************)
PyNone == [t |-> "none", n |-> 0, s |-> "", items |-> <<>>]

PyBool(b) == [t |-> "bool", n |-> IF b THEN 1 ELSE 0, s |-> "", items |-> <<>>]

PyInt(k) == [t |-> "int", n |-> k, s |-> "", items |-> <<>>]

PyFloat(k) == [t |-> "float", n |-> k, s |-> "", items |-> <<>>]

\* float("nan")
PyNaN == [t |-> "float", n |-> 0, s |-> "nan", items |-> <<>>]

PyStr(str) == [t |-> "str", n |-> 0, s |-> str, items |-> <<>>]

PyList(xs) == [t |-> "list", n |-> Len(xs), s |-> "", items |-> xs]

\* a list of k items of which only the length is modelled
PyListOfLen(k) == [t |-> "list", n |-> k, s |-> "", items |-> <<>>]

\* a dict, as the sequence of its (key, value) pairs: << <<k1, v1>>, ... >>
PyDict(kvs) ==
    [t |-> "dict", n |-> Len(kvs), s |-> "",
     items |-> [i \in 1..Len(kvs) |->
                  [t |-> "pair", n |-> 0, s |-> kvs[i][1], items |-> <<kvs[i][2]>>]]]

\* any other object
PyObject(name) == [t |-> "object", n |-> 0, s |-> name, items |-> <<>>]

\* isinstance(v, int): bool is a subclass of int
IsInt(v) == v.t \in {"int", "bool"}

\* isinstance(v, (int, float))
IsNumber(v) == v.t \in {"int", "bool", "float"}

IsStr(v) == v.t = "str"

\* bool(v)
Truthy(v) ==
    CASE v.t = "none"                    -> FALSE
      [] v.t \in {"bool", "int"}         -> v.n # 0
      [] v.t = "float"                   -> v.n # 0 \/ v.s # ""
      [] v.t = "str"                     -> v.s # ""
      [] v.t \in {"list", "dict"}        -> v.n > 0
      [] OTHER                           -> TRUE

\* whether len(v) is defined (it raises TypeError otherwise)
HasLen(v) == v.t \in {"str", "list", "dict"}

\* str.strip() of the argument strings: only "   " has surrounding whitespace
Strip(str) == IF str = "   " THEN "" ELSE str

\* str.lower() of the argument strings
LowerStr(str) ==
    CASE str = "MAXIMUM"  -> "maximum"
      [] str = "Standard" -> "standard"
      [] str = "TEXT"     -> "text"
      [] OTHER            -> str

(***************************************************************************)
(* Input validation of the tools (server.py).  Each returns the error      *)
(* message, None when the value is valid.                                  *)
(***************************************************************************)
_validate_url_param(v) ==
    IF ~IsStr(v) THEN "URL must be a string"
    ELSE IF v.s = "" \/ Strip(v.s) = "" THEN "URL cannot be empty"
    ELSE None

_validate_timeout(v) ==
    IF ~IsInt(v) THEN "Timeout must be an integer"
    ELSE IF v.n < 1000 \/ v.n > 300000
         THEN "Timeout must be between 1000 and 300000 milliseconds"
    ELSE None

valid_levels == {"minimal", "standard", "maximum"}

_validate_stealth_level(v) ==
    IF ~IsStr(v) THEN "Stealth level must be a string"
    ELSE IF LowerStr(v.s) \notin valid_levels
         THEN "Stealth level must be one of: minimal, standard, maximum"
    ELSE None

valid_modes == {"text", "html", "both"}

_validate_extract(v) ==
    IF ~IsStr(v) THEN "Extract must be a string"
    ELSE IF LowerStr(v.s) \notin valid_modes
         THEN "Extract must be one of: text, html, both"
    ELSE None

_validate_delay(v) ==
    IF ~IsNumber(v) THEN "Delay must be a number"
    ELSE IF v.n < 0 THEN "Delay must be non-negative"
    ELSE None

_validate_urls_list(v) ==
    IF v.t # "list" THEN "URLs must be a list"
    ELSE IF v.n = 0 THEN "URLs list cannot be empty"
    ELSE IF v.n > 100 THEN "URLs list cannot have more than 100 items"
    ELSE IF \E i \in 1..Len(v.items) : ~IsStr(v.items[i])
         THEN "All URLs must be strings"
    ELSE None

_validate_selector(v) ==
    IF v.t = "none" THEN None
    ELSE IF ~IsStr(v) THEN "Selector must be a string"
    ELSE None

\* _get_stealth_config_by_level: the preset, or ValueError for an unknown level
KnownLevel(str) == LowerStr(str) \in valid_levels

_get_stealth_config_by_level(str) ==
    CASE LowerStr(str) = "minimal"  -> get_minimal_stealth
      [] LowerStr(str) = "standard" -> get_standard_stealth
      [] OTHER                      -> get_maximum_stealth

(***************************************************************************)
(* State.                                                                  *)
(*                                                                         *)
(* scrape_with_retry (stealth.py): pc is the position of the call, the     *)
(* other variables are its arguments and locals.  trace is the history of  *)
(* what the call did to the engine (a ghost of the model): the attempts    *)
(* that ended, each with the proxy its session was opened with and how it  *)
(* ended, and the numbers of sessions opened and exited, of fetches, of    *)
(* backoff sleeps and of challenge grace sleeps.                           *)
(***************************************************************************)
VARIABLES
    pc,                 \* "idle", "attempt", "fetch", "solve", "refetch", "exit", "backoff", "done"
    url,                \* argument url
    config,             \* argument config (the caller's object, mutated in place)
    max_retries,        \* argument max_retries
    caller_config,      \* the object the caller passed as config, as it was at the call:
                        \* << config >>, or << >> for None (a ghost of the model)
    proxy_list,         \* argument proxy_list (None behaves as the empty list)
    attempt,            \* loop variable of `for attempt in range(max_retries)`
    current_proxy_idx,  \* 0-based index into proxy_list
    last_error,         \* the last captured error, NoError for None
    options,            \* the option bag of the attempt's engine session
    page,               \* the page of the attempt, NoPage before its first fetch
    pending,            \* how the body of `async with` ended: "return" or an exception
    result,             \* what the call returned or raised
    trace

(***************************************************************************)
(* The tools (server.py): tool is the tool being called, args its          *)
(* arguments, tpc the position of the call, response what it returned (or  *)
(* the exception that crossed the tool boundary).  The other variables are *)
(* the locals of scrape_batch.  ttrace is the history of what the call did *)
(* (a ghost of the model): its calls of scrape_with_retry and its sleeps,  *)
(* in order.                                                               *)
(***************************************************************************)
VARIABLES
    tool,               \* "none" or the name of the tool
    args,               \* the arguments of the call
    tpc,                \* "idle", "scrape", "sleep", "done"
    tconfig,            \* the StealthConfig the tool built
    response,           \* the value returned by the tool
    validated_urls,     \* scrape_batch: the (idx, url) pairs validate_url allows
    invalid_urls,       \* scrape_batch: the entries of the rejected URLs
    errors,             \* scrape_batch: the errors list
    successful_count,
    failed_count,
    results_placeholder,
    cursor,             \* scrape_batch: position of the loop in validated_urls
    ttrace

(***************************************************************************)
(* The session registry (stealth.py, module globals) and the locals of     *)
(* scrape_session.  engine_sessions is the heap of the AsyncStealthySession*)
(* objects built so far; a session is named by its position in it, 0 is    *)
(* None.                                                                   *)
(***************************************************************************)
VARIABLES
    engine_sessions,    \* the session objects: [playwright, options]
    _session,           \* the global session, 0 for None
    _config_cache,      \* <<>> for None, << config >> otherwise
    _session_storage,   \* server.py: the entries {session_id: {session, config}}
    session,            \* scrape_session: the session get_session returned
    tresult,            \* scrape_session: the result dict being filled
    tpage,              \* scrape_session: the page fetched
    cookie_cursor,      \* scrape_session: position of the loop over cookies
    calls               \* how many calls of scrape_session were made

(***************************************************************************)
(* The process (server.py, main and the signal handler): the server is     *)
(* "starting" until mcp.run() has the event loop running, and "exited"     *)
(* after sys.exit.  shutdown tells how far _cleanup_on_shutdown got for     *)
(* the signal: "none", "scheduled" (a task was created for it), "running"  *)
(* (run_until_complete is driving it), "completed", or "skipped".          *)
(***************************************************************************)
VARIABLES
    server,
    shutdown

processVars == << server, shutdown >>

(***************************************************************************)
(* The functions of stealth.py that read nothing but their arguments are   *)
(* applied one at a time: fn is the function applied ("none" before), input*)
(* its arguments and output what it returned.                              *)
(***************************************************************************)
VARIABLES
    fn,
    input,
    output

(***************************************************************************)
(* The preset constructors of stealth.py: profiles is the heap of the      *)
(* StealthConfig objects they created and handles the references they      *)
(* returned, in call order, each with the preset asked for and the values  *)
(* the object had when it was returned.                                    *)
(***************************************************************************)
VARIABLES
    profiles,
    handles

(***************************************************************************)
(* Tasks that call into the session registry concurrently: tasks[t] is the *)
(* call task t is in (the operation, the await it is suspended at, its     *)
(* config argument, the session object its pending engine call was made    *)
(* on, the session get_session returned to it), exit_log the calls of      *)
(* __aexit__ made so far, in order, and ops the number of calls made.      *)
(***************************************************************************)
VARIABLES
    tasks,
    exit_log,
    ops

concVars == << tasks, exit_log, ops >>

pureVars == << fn, input, output, profiles, handles, concVars >>

retryVars == << pc, url, config, caller_config, max_retries, proxy_list, attempt,
               current_proxy_idx, last_error, options, page, pending, result, trace >>

batchVars == << validated_urls, invalid_urls, errors, successful_count, failed_count,
                results_placeholder, cursor >>

sessionVars == << engine_sessions, _session, _config_cache, _session_storage, session,
                  tresult, tpage, cookie_cursor, calls >>

toolVars == << tool, args, tpc, tconfig, response, batchVars, ttrace, sessionVars >>

vars == << retryVars, toolVars, processVars, pureVars >>

NoError == [type |-> None, msg |-> ""]

Tasks == 1..MaxTasks

\* a task that is in no call
IdleTask ==
    [op |-> "none", pc |-> "idle", config |-> StealthConfigDefaults, target |-> 0,
     session |-> 0, error |-> None]

NoResult == [kind |-> "none", page |-> NoPage, error |-> NoError]

Return(p) == [kind |-> "return", page |-> p, error |-> NoError]

Raise(e) == [kind |-> "raise", page |-> NoPage, error |-> e]

NoOptions == to_scrapling_options(StealthConfigDefaults)

NoTrace == [attempts |-> <<>>, opened |-> 0, exited |-> 0, fetches |-> 0,
            backoff |-> 0, grace |-> 0]

\* what an awaited engine call can do: return, or raise
EngineOutcomes == {"ok", "asyncio.TimeoutError", "Exception"}

\* the proxy_list of n entries
ProxyPool(n) == [i \in 1..n |-> "http://proxy" \o ToString(i) \o ":8080"]

(***************************************************************************)
(* The decisions of scrape_with_retry.                                     *)
(***************************************************************************)
\* faulty variant of ApplyProxy: the rotation index is not used
ApplyProxy_FirstEntry(c, pool, idx) ==
    IF Len(pool) > 0 THEN [c EXCEPT !.proxy = pool[1]] ELSE c

\* lines 392-393: the proxy of the attempt
ApplyProxy(c, pool, idx) ==
    IF Len(pool) > 0 THEN [c EXCEPT !.proxy = pool[idx + 1]] ELSE c

\* faulty variant of Classify: a challenge raises CloudflareError whatever solve_cloudflare
Classify_NoSolve(p, c, first) ==
    IF first /\ _detect_cloudflare(p)
    THEN "CloudflareError"
    ELSE IF _detect_block(p) THEN "BlockedError" ELSE "return"

\* faulty variant of Classify: the re-fetched page is checked for a challenge too
Classify_Recheck(p, c, first) ==
    IF _detect_cloudflare(p)
    THEN IF c.solve_cloudflare THEN "solve" ELSE "CloudflareError"
    ELSE IF _detect_block(p) THEN "BlockedError" ELSE "return"

\* faulty variant of Classify: the block check comes before the challenge check
Classify_BlockFirst(p, c, first) ==
    IF _detect_block(p)
    THEN "BlockedError"
    ELSE IF first /\ _detect_cloudflare(p)
         THEN IF c.solve_cloudflare THEN "solve" ELSE "CloudflareError"
         ELSE "return"

\* faulty variant of Classify: the block check of line 414 is missing
Classify_BlockUnchecked(p, c, first) ==
    IF first /\ _detect_cloudflare(p)
    THEN IF c.solve_cloudflare THEN "solve" ELSE "CloudflareError"
    ELSE "return"

\* lines 405-418: what the body does with a fetched page.  first is TRUE for the
\* page of the first fetch; the page fetched after the grace sleep is not checked
\* for a challenge again.
Classify(p, c, first) ==
    IF first /\ _detect_cloudflare(p)
    THEN IF c.solve_cloudflare THEN "solve" ELSE "CloudflareError"
    ELSE IF _detect_block(p) THEN "BlockedError" ELSE "return"

\* lines 420-438: the except clauses
ExceptClause(e, c) ==
    CASE e = "CloudflareError"      -> [type |-> "CloudflareError", msg |-> "Cloudflare challenge could not be solved"]
      [] e = "BlockedError"         -> [type |-> "BlockedError", msg |-> "Request blocked"]
      [] e = "asyncio.TimeoutError" -> [type |-> "TimeoutError", msg |-> "Request timed out"]
      [] OTHER                      -> [type |-> "ScrapeError", msg |-> "Scraping failed"]

\* faulty variant of RotateProxy: every failed attempt rotates
RotateProxy_AnyError(e, pool, idx) ==
    IF Len(pool) > 1 THEN (idx + 1) % Len(pool) ELSE idx

\* lines 427-429: proxy rotation, in the BlockedError clause only
RotateProxy(e, pool, idx) ==
    IF e = "BlockedError" /\ Len(pool) > 1 THEN (idx + 1) % Len(pool) ELSE idx

\* faulty variant of ShouldBackoff: the sleep before the last attempt is skipped
ShouldBackoff_OffByOne(a, m) == a < m - 2

\* faulty variant of ShouldBackoff: a sleep follows the last attempt too
ShouldBackoff_EveryAttempt(a, m) == a < m

\* line 441
ShouldBackoff(a, m) == a < m - 1

\* line 447
RaiseLast(le) ==
    IF le # NoError THEN Raise(le)
    ELSE Raise([type |-> "ScrapeError", msg |-> "Max retries exceeded"])

(***************************************************************************)
(* What the tools hold.                                                    *)
(***************************************************************************)
NoArgs ==
    [url |-> PyNone, urls |-> PyNone, stealth_level |-> PyNone, delay |-> PyNone,
     selector |-> PyNone, extract |-> PyNone, timeout |-> PyNone,
     solve_cloudflare |-> PyNone, network_idle |-> PyNone, load_dom |-> PyNone,
     proxy |-> PyNone, session_id |-> PyNone, cookies |-> PyNone, selectors |-> PyNone]

\* the result dict of the tools of one URL; a key a tool does not have is None
ToolRecord(u) ==
    [kind |-> "record", url |-> u, session_id |-> PyNone, status_code |-> PyNone,
     title |-> PyNone, text |-> PyNone, html |-> PyNone, headers |-> PyNone,
     selectors |-> PyNone, cookies |-> PyNone, extracted |-> PyNone, error |-> PyNone]

\* the result dict returned when validation fails
Rejected(u, msg) == [ToolRecord(u) EXCEPT !.error = PyStr(msg)]

DisallowedUrl ==
    "Invalid or disallowed URL. URLs must use http/https and cannot point to localhost or private IP addresses."

NoResponse == [kind |-> "none"]

\* an exception that crossed the tool boundary
Fault(e) == [kind |-> "exception", error |-> e]

\* the page a tool gets from scrape_with_retry, by what format_response reads of it
\* html is the set of signature phrases of its body, found what a CSS selector
\* finds in it
ScrapedPage(h) ==
    [html |-> h, status |-> PyInt(200), title |-> PyStr("Example Domain"),
     body |-> PyStr("<html>"), text |-> PyStr("Example"), found |-> PyStr("Example")]

NoScraped ==
    [html |-> {}, status |-> PyNaN, title |-> PyObject("Element"),
     body |-> PyNone, text |-> PyStr(""), found |-> PyNone]

ScrapedPages == { ScrapedPage({}), NoScraped }

\* what `await scrape_with_retry(...)` gives a tool: a page, one of the errors of
\* its Raises section, or an unexpected exception
ScrapeOutcomes ==
    { [kind |-> "return", page |-> p, error |-> None] : p \in ScrapedPages }
    \cup { [kind |-> "raise", page |-> NoScraped, error |-> e] :
             e \in {"CloudflareError", "BlockedError", "TimeoutError", "ScrapeError",
                    "ValueError", "Exception"} }

\* extract_selectors(page, selectors): the selectors are read in order; one that
\* is not a string ends the loop with what was extracted so far
RECURSIVE ExtractedItems(_, _)
ExtractedItems(p, items) ==
    IF items = <<>> THEN <<>>
    ELSE IF ~IsStr(Head(items).items[1]) THEN <<>>
    ELSE << [Head(items) EXCEPT !.items = << p.found >>] >> \o ExtractedItems(p, Tail(items))

extract_selectors(p, selectors) ==
    LET got == ExtractedItems(p, selectors.items)
    IN  [t |-> "dict", n |-> Len(got), s |-> "", items |-> got]

(***************************************************************************)
(* format_response (stealth.py) on an opaque page object.  Each attribute  *)
(* or method of the page is a capability: "missing" (no such attribute),   *)
(* "raises" (reading or calling it raises an Exception) or "value" (it     *)
(* gives value).  A computation ends as [exc, v]: exc tells that it raised,*)
(* v is what it gave otherwise.                                            *)
(***************************************************************************)
MissingCap == [state |-> "missing", value |-> PyNone]

RaisingCap == [state |-> "raises", value |-> PyNone]

ValueCap(v) == [state |-> "value", value |-> v]

Gave(v) == [exc |-> FALSE, v |-> v]

Raised == [exc |-> TRUE, v |-> PyNone]

\* a key the dict does not hold; dict.get(key) gives None for it
AbsentKey == [t |-> "absent", n |-> 0, s |-> "", items |-> <<>>]

DictGet(v) == IF v = AbsentKey THEN PyNone ELSE v

\* getattr(page, name, default): only a missing attribute gives the default
GetAttr(cap, default) ==
    CASE cap.state = "missing" -> Gave(default)
      [] cap.state = "raises"  -> Raised
      [] OTHER                 -> Gave(cap.value)

\* faulty variant of TryExcept: the exception is not caught
TryExcept_Uncaught(r, fallback) == r

\* try: r / except Exception: fallback
TryExcept(r, fallback) == Gave(IF r.exc THEN fallback ELSE r.v)

\* the title elements css_first("title") may give, by what they can do
TitleElements ==
    { PyObject("get_all_text"), PyObject("get_all_text raises"), PyObject("text"),
      PyObject("bare") }

\* lines 539-545: the text of a title element
TitleText(el) ==
    CASE el.s = "get_all_text"        -> Gave(PyStr("Example Domain"))
      [] el.s = "get_all_text raises" -> Raised
      [] el.s = "text"                -> Gave(PyStr("Example Domain"))
      [] OTHER                        -> Gave(PyStr("<title>"))

\* lines 536-550, the body of the try
TitleBlock(pg) ==
    CASE pg.css_first.state = "raises"  -> Raised
      [] pg.css_first.state = "missing" -> GetAttr(pg.title, PyNone)
      [] OTHER -> IF Truthy(pg.css_first.value)
                  THEN TitleText(pg.css_first.value)
                  ELSE Gave(PyNone)

\* lines 557-560, the body of the try: the second getattr may raise after
\* response["html"] was set to None
HtmlBlock(pg) ==
    LET body == GetAttr(pg.body, PyNone)
    IN  IF body.exc THEN Gave(AbsentKey)
        ELSE IF body.v # PyNone THEN body
        ELSE TryExcept(GetAttr(pg.html_content, PyNone), PyNone)

\* lines 566-571, the body of the try
TextBlock(pg) ==
    CASE pg.get_all_text.state = "raises" -> Raised
      [] pg.get_all_text.state = "value"  -> Gave(pg.get_all_text.value)
      [] OTHER -> CASE pg.text.state = "raises" -> Raised
                    [] pg.text.state = "value"  -> Gave(pg.text.value)
                    [] OTHER                    -> Gave(PyStr(""))

\* the dict format_response returns, or the exception that left it
FormatResponse(pg, u, selectors) ==
    LET status == TryExcept(GetAttr(pg.status, PyNone), AbsentKey)
        title  == TryExcept(TitleBlock(pg), PyNone)
        html   == HtmlBlock(pg)
        text   == TryExcept(TextBlock(pg), PyStr(""))
    IN  [ exc |-> status.exc \/ title.exc \/ html.exc \/ text.exc,
          v   |-> [ url |-> u, timestamp |-> "utcnow", status |-> status.v,
                    title |-> title.v, html |-> html.v, text |-> text.v,
                    selectors |-> IF Truthy(selectors)
                                  THEN extract_selectors(pg, selectors)
                                  ELSE AbsentKey ] ]

\* the page object of a page given by what its attributes hold
PageObject(p) ==
    [ status |-> ValueCap(p.status), css_first |-> MissingCap, title |-> ValueCap(p.title),
      body |-> ValueCap(p.body), html_content |-> MissingCap, get_all_text |-> MissingCap,
      text |-> ValueCap(p.text), found |-> p.found ]

\* format_response(page, url): the fields the tools read
format_response(p, u) ==
    LET formatted == FormatResponse(PageObject(p), u, PyNone).v
    IN  [url |-> u, status |-> DictGet(formatted.status), title |-> DictGet(formatted.title),
         html |-> DictGet(formatted.html), text |-> DictGet(formatted.text)]

\* the except clauses of the tools: result["error"] for the exception caught
ToolErrorText(e) ==
    CASE e = "CloudflareError" -> "Cloudflare protection detected: "
      [] e = "BlockedError"    -> "Request blocked: "
      [] e = "TimeoutError"    -> "Request timed out: "
      [] e = "ScrapeError"     -> "Scraping error: "
      [] e = "ValueError"      -> "Validation error: "
      [] OTHER                 -> "Unexpected error: "

\* the except clauses of scrape_batch: the "error" of the entry added to errors
BatchErrorText(e) ==
    CASE e = "CloudflareError" -> "Cloudflare protection: "
      [] e = "BlockedError"    -> "Blocked: "
      [] e = "TimeoutError"    -> "Timeout: "
      [] e = "ScrapeError"     -> "Scraping error: "
      [] e = "ValueError"      -> "Validation: "
      [] OTHER                 -> "Unexpected: "

\* _ensure_json_serializable of one value
RECURSIVE _ensure_json_serializable(_)
_ensure_json_serializable(v) ==
    CASE v.t = "none"                                  -> PyNone
      [] v.t \in {"str", "int", "bool"}                -> v
      [] v.t = "float"                                 -> IF v.s # "" THEN PyNone ELSE v
      [] v.t \in {"list", "dict", "pair"}              ->
            [v EXCEPT !.items = [i \in DOMAIN v.items |-> _ensure_json_serializable(v.items[i])]]
      [] OTHER                                         -> PyStr(v.s)

(***************************************************************************)
(* scrape_with_retry, one action per await.                                *)
(***************************************************************************)
Init ==
    /\ pc = "idle"
    /\ url = ""
    /\ config = StealthConfigDefaults
    /\ max_retries = 0
    /\ proxy_list = <<>>
    /\ caller_config = <<>>
    /\ attempt = 0
    /\ current_proxy_idx = 0
    /\ last_error = NoError
    /\ options = NoOptions
    /\ page = NoPage
    /\ pending = None
    /\ result = NoResult
    /\ trace = NoTrace
    /\ tool = "none"
    /\ args = NoArgs
    /\ tpc = "idle"
    /\ tconfig = StealthConfigDefaults
    /\ response = NoResponse
    /\ validated_urls = <<>>
    /\ invalid_urls = <<>>
    /\ errors = <<>>
    /\ successful_count = 0
    /\ failed_count = 0
    /\ results_placeholder = <<>>
    /\ cursor = 0
    /\ ttrace = <<>>
    /\ engine_sessions = <<>>
    /\ _session = 0
    /\ _config_cache = <<>>
    /\ _session_storage = {}
    /\ session = 0
    /\ tresult = ToolRecord(PyNone)
    /\ tpage = NoScraped
    /\ cookie_cursor = 0
    /\ calls = 0
    /\ server = "starting"
    /\ shutdown = "none"
    /\ fn = "none"
    /\ input = << >>
    /\ output = << >>
    /\ profiles = << >>
    /\ handles = << >>
    /\ tasks = [t \in Tasks |-> IdleTask]
    /\ exit_log = << >>
    /\ ops = 0

\* the attempt ended (trace), with e raised or with "return"
EndAttempt(t, e) ==
    [t EXCEPT !.attempts = Append(@, [proxy |-> options.proxy, ended |-> e])]

\* faulty variant of NextIteration: the loop runs over range(max_retries + 1)
NextIteration_OneMore(le) ==
    IF attempt + 1 < max_retries + 1
    THEN /\ attempt' = attempt + 1
         /\ pc' = "attempt"
         /\ result' = result
    ELSE /\ attempt' = attempt
         /\ pc' = "done"
         /\ result' = RaiseLast(le)

\* the end of a loop iteration that did not return: the next iteration, or line 447
NextIteration(le) ==
    IF attempt + 1 < max_retries
    THEN /\ attempt' = attempt + 1
         /\ pc' = "attempt"
         /\ result' = result
    ELSE /\ attempt' = attempt
         /\ pc' = "done"
         /\ result' = RaiseLast(le)

\* lines 420-444: exception e of the try block is caught; t is the trace so far
Caught(e, t) ==
    /\ last_error' = ExceptClause(e, config)
    /\ current_proxy_idx' = RotateProxy(e, proxy_list, current_proxy_idx)
    /\ trace' = EndAttempt(t, e)
    /\ page' = NoPage
    /\ pending' = None
    /\ IF ShouldBackoff(attempt, max_retries)
       THEN /\ pc' = "backoff"
            /\ UNCHANGED << attempt, result >>
       ELSE NextIteration(ExceptClause(e, config))

\* lines 379-389: the call, up to the first iteration of the loop
ScrapeWithRetryCall ==
    /\ UNCHANGED << toolVars, processVars, pureVars >>
    /\ server = "running" /\ tool = "none" /\ calls = 0
    /\ pc = "idle"
    /\ \E u \in UrlSamples, given \in BOOLEAN,
          c \in {get_minimal_stealth, get_standard_stealth, get_maximum_stealth},
          m \in 0..MaxRetries, n \in 0..MaxProxies :
         /\ url' = u
         /\ max_retries' = m
         /\ proxy_list' = ProxyPool(n)
         /\ config' = IF given THEN c ELSE get_standard_stealth
         /\ caller_config' = IF given THEN << c >> ELSE << >>
         /\ IF ~validate_url(u)
            THEN /\ pc' = "done"
                 /\ result' = Raise([type |-> "ValueError", msg |-> "Invalid or disallowed URL"])
            ELSE IF 0 < m
                 THEN /\ pc' = "attempt"
                      /\ result' = result
                 ELSE /\ pc' = "done"
                      /\ result' = RaiseLast(NoError)
    /\ attempt' = 0
    /\ current_proxy_idx' = 0
    /\ last_error' = NoError
    /\ UNCHANGED << options, page, pending, trace >>

\* lines 391-399: the proxy of the attempt, the option bag, and the engine session
\* entered (AsyncStealthySession(**options).__aenter__)
OpenSession ==
    /\ UNCHANGED << toolVars, processVars, pureVars >>
    /\ pc = "attempt"
    /\ LET c == ApplyProxy(config, proxy_list, current_proxy_idx)
       IN  /\ config' = c
           /\ options' = to_scrapling_options(c)
    /\ \E o \in EngineOutcomes :
         IF o = "ok"
         THEN /\ pc' = "fetch"
              /\ trace' = [trace EXCEPT !.opened = @ + 1]
              /\ UNCHANGED << attempt, current_proxy_idx, last_error, page, pending, result >>
         ELSE /\ last_error' = ExceptClause(o, config')
              /\ current_proxy_idx' = RotateProxy(o, proxy_list, current_proxy_idx)
              /\ trace' = [trace EXCEPT
                             !.attempts = Append(@, [proxy |-> options'.proxy, ended |-> o])]
              /\ UNCHANGED << page, pending >>
              /\ IF ShouldBackoff(attempt, max_retries)
                 THEN /\ pc' = "backoff"
                      /\ UNCHANGED << attempt, result >>
                 ELSE NextIteration(ExceptClause(o, config'))
    /\ UNCHANGED << url, max_retries, proxy_list, caller_config >>

\* what follows a fetch that returned p or raised (lines 402-418)
AfterFetch(o, p, first) ==
    IF o # "ok"
    THEN /\ pending' = o
         /\ pc' = "exit"
         /\ page' = page
    ELSE /\ page' = p
         /\ LET verdict == Classify(p, config, first)
            IN  IF verdict = "solve"
                THEN /\ pc' = "solve"
                     /\ pending' = pending
                ELSE /\ pc' = "exit"
                     /\ pending' = verdict

\* line 402: session.fetch(url, wait_for=2)
Fetch ==
    /\ UNCHANGED << toolVars, processVars, pureVars >>
    /\ pc = "fetch"
    /\ \E o \in EngineOutcomes, body \in PageBodies :
         /\ o # "ok" => body = {}
         /\ AfterFetch(o, [attempt |-> attempt, fetch |-> 1, html |-> body], TRUE)
    /\ trace' = [trace EXCEPT !.fetches = @ + 1]
    /\ UNCHANGED << url, config, max_retries, proxy_list, caller_config, attempt, current_proxy_idx,
                    last_error, options, result >>

\* line 408: asyncio.sleep(3), the grace period of a challenge being solved
ChallengeWait ==
    /\ UNCHANGED << toolVars, processVars, pureVars >>
    /\ pc = "solve"
    /\ pc' = "refetch"
    /\ trace' = [trace EXCEPT !.grace = @ + 1]
    /\ UNCHANGED << url, config, max_retries, proxy_list, caller_config, attempt, current_proxy_idx,
                    last_error, options, page, pending, result >>

\* line 409: session.fetch(url, wait_for=5)
Refetch ==
    /\ UNCHANGED << toolVars, processVars, pureVars >>
    /\ pc = "refetch"
    /\ \E o \in EngineOutcomes, body \in PageBodies :
         /\ o # "ok" => body = {}
         /\ AfterFetch(o, [attempt |-> attempt, fetch |-> 2, html |-> body], FALSE)
    /\ trace' = [trace EXCEPT !.fetches = @ + 1]
    /\ UNCHANGED << url, config, max_retries, proxy_list, caller_config, attempt, current_proxy_idx,
                    last_error, options, result >>

\* faulty variant of ExitSession: the session is closed after the body's last
\* statement only, so a body that raises leaves it open
ExitSession_OnlyOnReturn(t, ended) ==
    IF ended = "return" THEN [t EXCEPT !.exited = @ + 1] ELSE t

\* `async with` awaits the session's __aexit__ however the body ended
ExitSession(t, ended) == [t EXCEPT !.exited = @ + 1]

\* the end of `async with` (line 399): the session's __aexit__, then the return of
\* line 418 or the except clauses.  An exception of __aexit__ replaces what the
\* body ended with.
CloseSession ==
    /\ UNCHANGED << toolVars, processVars, pureVars >>
    /\ pc = "exit"
    /\ \E o \in EngineOutcomes :
         LET t == ExitSession(trace, pending)
         IN  IF o = "ok" /\ pending = "return"
             THEN /\ pc' = "done"
                  /\ result' = Return(page)
                  /\ trace' = EndAttempt(t, "return")
                  /\ UNCHANGED << attempt, current_proxy_idx, last_error, page, pending >>
             ELSE Caught(IF o = "ok" THEN pending ELSE o, t)
    /\ UNCHANGED << url, config, max_retries, proxy_list, caller_config, options >>

\* lines 441-444: asyncio.sleep(delay), then the next iteration
BackoffSleep ==
    /\ UNCHANGED << toolVars, processVars, pureVars >>
    /\ pc = "backoff"
    /\ trace' = [trace EXCEPT !.backoff = @ + 1]
    /\ NextIteration(last_error)
    /\ UNCHANGED << url, config, max_retries, proxy_list, caller_config, current_proxy_idx, last_error,
                    options, page, pending >>

(***************************************************************************)
(* scrape_batch (server.py).  One action for the call up to its first      *)
(* await, one for each `await scrape_with_retry`, one for each             *)
(* `await asyncio.sleep(delay)`.  Indexes are Python's (from 0); the       *)
(* sequences of the model are indexed from 1.                              *)
(***************************************************************************)
UrlItems == { PyStr("https://example.com"), PyStr("http://localhost"), PyInt(7) }

UrlLists == UNION { [1..k -> UrlItems] : k \in 1..MaxUrls }

UrlsArgs ==
    { PyNone, PyInt(3), PyStr("https://example.com"), PyList(<<>>), PyListOfLen(101) }
    \cup { PyList(l) : l \in UrlLists }

LevelArgs == { PyStr("standard"), PyStr("MAXIMUM"), PyStr("turbo"), PyNone }

DelayArgs == { PyFloat(1), PyInt(0), PyNaN, PyInt(-1), PyStr("1") }

\* one slot of results: None, or the result dict of one URL
NoneSlot ==
    [none |-> TRUE, url |-> PyNone, status_code |-> PyNone, title |-> PyNone,
     text |-> PyNone, html |-> PyNone, error |-> PyNone]

EmptyResult(u) == [NoneSlot EXCEPT !.none = FALSE, !.url = u]

\* faulty variant of BatchResult: the error of a failed fetch is not recorded
BatchResult_ErrorLost(u, o) == EmptyResult(u)

\* the result dict after `await scrape_with_retry` gave o for URL u
BatchResult(u, o) ==
    IF o.kind = "return"
    THEN LET formatted == format_response(o.page, u)
         IN  [EmptyResult(u) EXCEPT !.status_code = formatted.status,
                                    !.title = formatted.title,
                                    !.text = formatted.text,
                                    !.html = formatted.html]
    ELSE [EmptyResult(u) EXCEPT !.error = PyStr(ToolErrorText(o.error))]

\* an entry of errors; index is -1 for the entry that carries no index
ErrorEntry(i, u, msg) == [index |-> i, url |-> u, error |-> msg]

\* the dict scrape_batch returns when an argument fails validation
BatchRejected(total, msg) ==
    [kind |-> "record", total |-> total, successful |-> 0, failed |-> total,
     results |-> <<>>, errors |-> << ErrorEntry(-1, PyNone, msg) >>]

\* enumerate(urls) split by validate_url
RECURSIVE Validated(_, _)
Validated(items, k) ==
    IF k > Len(items) THEN <<>>
    ELSE IF validate_url(items[k].s)
         THEN << << k - 1, items[k] >> >> \o Validated(items, k + 1)
         ELSE Validated(items, k + 1)

RECURSIVE Invalid(_, _)
Invalid(items, k) ==
    IF k > Len(items) THEN <<>>
    ELSE IF validate_url(items[k].s)
         THEN Invalid(items, k + 1)
         ELSE << ErrorEntry(k - 1, items[k], "Invalid or disallowed URL") >>
              \o Invalid(items, k + 1)

\* the second loop: results_placeholder[invalid["index"]] = {...}
RECURSIVE FillInvalid(_, _, _)
FillInvalid(res, inv, k) ==
    IF k > Len(inv) THEN res
    ELSE FillInvalid([res EXCEPT ![inv[k].index + 1] =
                          [EmptyResult(inv[k].url) EXCEPT !.error = PyStr(inv[k].error)]],
                     inv, k + 1)

JsonSlot(r) ==
    IF r.none THEN r
    ELSE [none |-> FALSE,
          url |-> _ensure_json_serializable(r.url),
          status_code |-> _ensure_json_serializable(r.status_code),
          title |-> _ensure_json_serializable(r.title),
          text |-> _ensure_json_serializable(r.text),
          html |-> _ensure_json_serializable(r.html),
          error |-> _ensure_json_serializable(r.error)]

\* faulty variant of BatchResponse: the rejected URLs are not counted as failed
BatchResponse_InvalidUncounted(n, errs, ok, bad, res, inv) ==
    [kind |-> "record", total |-> n, successful |-> ok, failed |-> bad,
     results |-> [i \in DOMAIN res |-> JsonSlot(FillInvalid(res, inv, 1)[i])],
     errors |-> errs \o inv]

\* lines 1082-1114: what the call returns once the loop is over
BatchResponse(n, errs, ok, bad, res, inv) ==
    [kind |-> "record",
     total |-> n,
     successful |-> ok,
     failed |-> bad + Len(inv),
     results |-> [i \in DOMAIN res |-> JsonSlot(FillInvalid(res, inv, 1)[i])],
     errors |-> [i \in 1..(Len(errs) + Len(inv)) |->
                   LET e == (errs \o inv)[i]
                   IN  [e EXCEPT !.url = _ensure_json_serializable(e.url)]]]

\* line 1079: is the item followed by a sleep?  idx is the item's index in
\* urls, pos its position in validated_urls, n the length of validated_urls
DelayAfter(idx, pos, n) == idx < n - 1

\* the loop moves to its next item, or the call returns
BatchAdvance(errs, ok, bad, res) ==
    IF cursor < Len(validated_urls)
    THEN /\ cursor' = cursor + 1
         /\ tpc' = "scrape"
         /\ response' = response
    ELSE /\ cursor' = cursor
         /\ tpc' = "done"
         /\ response' = BatchResponse(Len(args.urls.items), errs, ok, bad, res, invalid_urls)

ScrapeBatchCall ==
    /\ server = "running" /\ pc = "idle" /\ tool = "none" /\ calls = 0
    /\ UNCHANGED << pureVars, processVars, retryVars, sessionVars >>
    /\ \E urls \in UrlsArgs, stealth_level \in LevelArgs, delay \in DelayArgs :
         /\ tool' = "scrape_batch"
         /\ args' = [NoArgs EXCEPT !.urls = urls, !.stealth_level = stealth_level,
                                   !.delay = delay]
         /\ IF ~HasLen(urls)
            THEN \* len(urls) in the entry log line
                 /\ response' = Fault("TypeError")
                 /\ tpc' = "done"
                 /\ UNCHANGED << tconfig, batchVars, ttrace >>
            ELSE IF _validate_urls_list(urls) # None
            THEN /\ response' = BatchRejected(0, _validate_urls_list(urls))
                 /\ tpc' = "done"
                 /\ UNCHANGED << tconfig, batchVars, ttrace >>
            ELSE IF _validate_stealth_level(stealth_level) # None
            THEN /\ response' = BatchRejected(urls.n, _validate_stealth_level(stealth_level))
                 /\ tpc' = "done"
                 /\ UNCHANGED << tconfig, batchVars, ttrace >>
            ELSE IF _validate_delay(delay) # None
            THEN /\ response' = BatchRejected(urls.n, _validate_delay(delay))
                 /\ tpc' = "done"
                 /\ UNCHANGED << tconfig, batchVars, ttrace >>
            ELSE /\ validated_urls' = Validated(urls.items, 1)
                 /\ invalid_urls' = Invalid(urls.items, 1)
                 /\ errors' = <<>>
                 /\ successful_count' = 0
                 /\ failed_count' = 0
                 /\ results_placeholder' = [i \in 1..urls.n |-> NoneSlot]
                 /\ tconfig' = _get_stealth_config_by_level(stealth_level.s)
                 /\ ttrace' = ttrace
                 /\ IF Validated(urls.items, 1) # <<>>
                    THEN /\ cursor' = 1
                         /\ tpc' = "scrape"
                         /\ response' = response
                    ELSE /\ cursor' = 0
                         /\ tpc' = "done"
                         /\ response' = BatchResponse(urls.n, <<>>, 0, 0,
                                                      [i \in 1..urls.n |-> NoneSlot],
                                                      Invalid(urls.items, 1))

\* `page = await scrape_with_retry(...)` of one item, up to the next await
BatchScrape ==
    /\ tool = "scrape_batch" /\ tpc = "scrape"
    /\ UNCHANGED << pureVars, processVars, retryVars, sessionVars >>
    /\ \E o \in ScrapeOutcomes :
         LET idx  == validated_urls[cursor][1]
             u    == validated_urls[cursor][2]
             ok   == IF o.kind = "return" THEN successful_count + 1 ELSE successful_count
             bad  == IF o.kind = "return" THEN failed_count ELSE failed_count + 1
             errs == IF o.kind = "return" THEN errors
                     ELSE Append(errors, ErrorEntry(idx, u, BatchErrorText(o.error)))
             res  == [results_placeholder EXCEPT ![idx + 1] = BatchResult(u, o)]
         IN  /\ ttrace' = Append(ttrace, [ev |-> "scrape_with_retry", idx |-> idx, url |-> u.s,
                                          out |-> IF o.kind = "return" THEN "page" ELSE o.error])
             /\ successful_count' = ok
             /\ failed_count' = bad
             /\ errors' = errs
             /\ results_placeholder' = res
             /\ IF DelayAfter(idx, cursor, Len(validated_urls))
                THEN /\ tpc' = "sleep"
                     /\ UNCHANGED << cursor, response >>
                ELSE BatchAdvance(errs, ok, bad, res)
    /\ UNCHANGED << tool, args, tconfig, validated_urls, invalid_urls >>

\* `await asyncio.sleep(delay)`.  asyncio.sleep(nan) raises ValueError from
\* Python 3.12 on and never completes before: the call then stays here for ever.
BatchSleep ==
    /\ tool = "scrape_batch" /\ tpc = "sleep"
    /\ UNCHANGED << pureVars, processVars, retryVars, sessionVars >>
    /\ ttrace' = Append(ttrace, [ev |-> "sleep", idx |-> validated_urls[cursor][1],
                                 url |-> validated_urls[cursor][2].s, out |-> ""])
    /\ IF args.delay = PyNaN
       THEN /\ response' = Fault("ValueError")
            /\ tpc' = "done"
            /\ cursor' = cursor
       ELSE BatchAdvance(errors, successful_count, failed_count, results_placeholder)
    /\ UNCHANGED << tool, args, tconfig, validated_urls, invalid_urls, errors,
                    successful_count, failed_count, results_placeholder >>

(***************************************************************************)
(* The tools of one URL that fetch through scrape_with_retry: one action   *)
(* for the call up to `await scrape_with_retry`, one for what follows it.  *)
(***************************************************************************)
UrlArgs ==
    { PyNone, PyStr("https://example.com"), PyStr("http://localhost"), PyStr("   "),
      PyStr("") }

SelectorArgs == { PyNone, PyStr("h1"), PyStr(""), PyInt(3) }

ExtractArgs == { PyStr("text"), PyStr("html"), PyStr("both"), PyStr("TEXT"), PyStr("xml"), PyInt(1) }

TimeoutArgs == { PyInt(30000), PyInt(1500), PyInt(999), PyInt(300001), PyStr("30000"), PyBool(TRUE) }

FlagArgs == { PyBool(FALSE), PyBool(TRUE), PyStr("yes") }

ProxyArgs == { PyNone, PyStr(""), PyStr("http://proxy1:8080"), PyInt(5) }

SelectorsArgs ==
    { PyDict(<< <<"title", PyStr("h1")>> >>),
      PyDict(<< <<"title", PyStr("h1")>>, <<"n", PyInt(5)>>, <<"link", PyStr("a@href")>> >>),
      PyDict(<<>>), PyStr("h1"), PyList(<< PyStr("h1") >>), PyNone }

\* str(v) of an argument
PyRepr(v) ==
    CASE v.t = "str"  -> v.s
      [] v.t = "int"  -> ToString(v.n)
      [] v.t = "none" -> None
      [] OTHER        -> v.t

\* the first validator of the sequence that objects, None when none does
RECURSIVE FirstError(_)
FirstError(msgs) ==
    IF msgs = <<>> THEN None
    ELSE IF Head(msgs) # None THEN Head(msgs)
    ELSE FirstError(Tail(msgs))

\* faulty variant of UrlGuard: validate_url is not consulted
UrlGuard_Off(u) == None

\* `if not validate_url(url)`, reached only with a string
UrlGuard(u) == IF IsStr(u) /\ ~validate_url(u.s) THEN DisallowedUrl ELSE None

\* _ensure_json_serializable of a result dict
JsonRecord(r) ==
    [kind |-> r.kind,
     url |-> _ensure_json_serializable(r.url),
     session_id |-> _ensure_json_serializable(r.session_id),
     status_code |-> _ensure_json_serializable(r.status_code),
     title |-> _ensure_json_serializable(r.title),
     text |-> _ensure_json_serializable(r.text),
     html |-> _ensure_json_serializable(r.html),
     headers |-> _ensure_json_serializable(r.headers),
     selectors |-> _ensure_json_serializable(r.selectors),
     cookies |-> _ensure_json_serializable(r.cookies),
     extracted |-> _ensure_json_serializable(r.extracted),
     error |-> _ensure_json_serializable(r.error)]

\* the except clauses of a tool: the result dict with its error set
Failed(r, e) == [r EXCEPT !.error = PyStr(ToolErrorText(e))]

ScrapeEvent(u, o) ==
    [ev |-> "scrape_with_retry", idx |-> -1, url |-> u.s,
     out |-> IF o.kind = "return" THEN "page" ELSE o.error]

ScrapeSimpleCall ==
    /\ server = "running" /\ pc = "idle" /\ tool = "none" /\ calls = 0
    /\ UNCHANGED << pureVars, processVars, retryVars, batchVars, sessionVars, ttrace >>
    /\ \E u \in UrlArgs, selector \in SelectorArgs, extract \in ExtractArgs,
          timeout \in TimeoutArgs :
         LET msg == FirstError(<< _validate_url_param(u), _validate_selector(selector),
                                  _validate_extract(extract), _validate_timeout(timeout),
                                  UrlGuard(u) >>)
         IN  /\ tool' = "scrape_simple"
             /\ args' = [NoArgs EXCEPT !.url = u, !.selector = selector,
                                       !.extract = extract, !.timeout = timeout]
             /\ IF msg # None
                THEN /\ response' = Rejected(u, msg)
                     /\ tpc' = "done"
                     /\ tconfig' = tconfig
                ELSE /\ tconfig' = [get_minimal_stealth EXCEPT !.timeout = timeout.n \div 1000]
                     /\ tpc' = "scrape"
                     /\ response' = response

ScrapeSimpleScrape ==
    /\ tool = "scrape_simple" /\ tpc = "scrape"
    /\ UNCHANGED << pureVars, processVars, retryVars, batchVars, sessionVars, tool, args, tconfig >>
    /\ \E o \in ScrapeOutcomes :
         LET selectors_dict == PyDict(<< <<"content", args.selector>> >>)
             formatted == format_response(o.page, args.url)
             filled == [ToolRecord(args.url) EXCEPT
                          !.status_code = formatted.status,
                          !.title = formatted.title,
                          !.headers = PyDict(<<>>),
                          !.text = IF args.extract.s \in {"text", "both"}
                                   THEN formatted.text ELSE PyNone,
                          !.html = IF args.extract.s \in {"html", "both"}
                                   THEN formatted.html ELSE PyNone,
                          !.selectors = IF Truthy(args.selector)
                                        THEN extract_selectors(o.page, selectors_dict)
                                        ELSE PyNone]
         IN  /\ ttrace' = Append(ttrace, ScrapeEvent(args.url, o))
             /\ response' = IF o.kind = "return" THEN filled
                            ELSE Failed(ToolRecord(args.url), o.error)
             /\ tpc' = "done"

\* a faulty variant: challenge solving is switched on by the argument and
\* never switched off, so a preset that solves challenges keeps doing so
Override_KeepPreset(preset, solve_cloudflare, network_idle, load_dom, timeout, proxy) ==
    [preset EXCEPT
       !.solve_cloudflare = @ \/ Truthy(solve_cloudflare),
       !.network_idle = Truthy(network_idle),
       !.load_dom = Truthy(load_dom),
       !.timeout = timeout.n \div 1000,
       !.proxy = IF Truthy(proxy) THEN PyRepr(proxy) ELSE @]

\* scrape_stealth's assignments to the preset it obtained: four fields are
\* always assigned, the timeout in whole seconds, and proxy only `if proxy`
Override(preset, solve_cloudflare, network_idle, load_dom, timeout, proxy) ==
    [preset EXCEPT
       !.solve_cloudflare = Truthy(solve_cloudflare),
       !.network_idle = Truthy(network_idle),
       !.load_dom = Truthy(load_dom),
       !.timeout = timeout.n \div 1000,
       !.proxy = IF Truthy(proxy) THEN PyRepr(proxy) ELSE @]

ScrapeStealthCall ==
    /\ server = "running" /\ pc = "idle" /\ tool = "none" /\ calls = 0
    /\ UNCHANGED << pureVars, processVars, retryVars, batchVars, sessionVars, ttrace >>
    /\ \E u \in UrlArgs, stealth_level \in LevelArgs, solve_cloudflare \in FlagArgs,
          network_idle \in FlagArgs, load_dom \in {PyBool(TRUE), PyBool(FALSE)},
          timeout \in TimeoutArgs, proxy \in ProxyArgs :
         LET msg == FirstError(<< _validate_url_param(u),
                                  _validate_stealth_level(stealth_level),
                                  _validate_timeout(timeout), UrlGuard(u) >>)
         IN  /\ tool' = "scrape_stealth"
             /\ args' = [NoArgs EXCEPT !.url = u, !.stealth_level = stealth_level,
                                       !.solve_cloudflare = solve_cloudflare,
                                       !.network_idle = network_idle,
                                       !.load_dom = load_dom,
                                       !.timeout = timeout, !.proxy = proxy]
             /\ IF msg # None
                THEN /\ response' = Rejected(u, msg)
                     /\ tpc' = "done"
                     /\ tconfig' = tconfig
                ELSE /\ tconfig' =
                          Override(_get_stealth_config_by_level(stealth_level.s),
                                   solve_cloudflare, network_idle, load_dom,
                                   timeout, proxy)
                     /\ tpc' = "scrape"
                     /\ response' = response

ScrapeStealthScrape ==
    /\ tool = "scrape_stealth" /\ tpc = "scrape"
    /\ UNCHANGED << pureVars, processVars, retryVars, batchVars, sessionVars, tool, args, tconfig >>
    /\ \E o \in ScrapeOutcomes :
         LET formatted == format_response(o.page, args.url)
         IN  /\ ttrace' = Append(ttrace, ScrapeEvent(args.url, o))
             /\ response' = IF o.kind = "return"
                            THEN [ToolRecord(args.url) EXCEPT
                                    !.status_code = formatted.status,
                                    !.title = formatted.title,
                                    !.text = formatted.text,
                                    !.html = formatted.html]
                            ELSE Failed(ToolRecord(args.url), o.error)
             /\ tpc' = "done"

ExtractStructuredCall ==
    /\ server = "running" /\ pc = "idle" /\ tool = "none" /\ calls = 0
    /\ UNCHANGED << pureVars, processVars, retryVars, batchVars, sessionVars, ttrace >>
    /\ \E u \in UrlArgs, selectors \in SelectorsArgs, stealth_level \in LevelArgs :
         LET msg == FirstError(<< IF selectors.t # "dict"
                                  THEN "Selectors must be a dictionary" ELSE None,
                                  _validate_url_param(u),
                                  _validate_stealth_level(stealth_level), UrlGuard(u) >>)
         IN  /\ tool' = "extract_structured"
             /\ args' = [NoArgs EXCEPT !.url = u, !.selectors = selectors,
                                       !.stealth_level = stealth_level]
             /\ IF msg # None
                THEN /\ response' = Rejected(u, msg)
                     /\ tpc' = "done"
                     /\ tconfig' = tconfig
                ELSE /\ tconfig' = _get_stealth_config_by_level(stealth_level.s)
                     /\ tpc' = "scrape"
                     /\ response' = response

ExtractStructuredScrape ==
    /\ tool = "extract_structured" /\ tpc = "scrape"
    /\ UNCHANGED << pureVars, processVars, retryVars, batchVars, sessionVars, tool, args, tconfig >>
    /\ \E o \in ScrapeOutcomes :
         LET formatted == format_response(o.page, args.url)
         IN  /\ ttrace' = Append(ttrace, ScrapeEvent(args.url, o))
             /\ response' = JsonRecord(
                                IF o.kind = "return"
                                THEN [ToolRecord(args.url) EXCEPT
                                        !.status_code = formatted.status,
                                        !.title = formatted.title,
                                        !.text = formatted.text,
                                        !.extracted = extract_selectors(o.page, args.selectors)]
                                ELSE Failed(ToolRecord(args.url), o.error))
             /\ tpc' = "done"

(***************************************************************************)
(* scrape_session (server.py) with get_session and close_session           *)
(* (stealth.py) in line: one action for the call up to its first await,    *)
(* one for each await.  The engine's calls end as EngineOutcomes says.     *)
(***************************************************************************)
SessionIdArgs == { PyNone, PyStr(""), PyStr("s1"), PyList(<< PyStr("s1") >>) }

CookiesArgs ==
    { PyNone, PyDict(<< <<"sid", PyStr("abc")>>, <<"lang", PyStr("en")>> >>),
      PyStr("sid=abc") }

\* the pages session.fetch may return
SessionPages == { ScrapedPage(h) : h \in { {}, {"just a moment"}, {"access denied"} } }

\* what `await session.get_cookies()` gives
CookieJars == { PyList(<<>>), PyList(<< PyDict(<< <<"name", PyStr("sid")>>, <<"value", PyStr("abc")>> >>) >>) }

Hashable(v) == v.t \notin {"list", "dict"}

EngineEvent(name, out) == [ev |-> name, idx |-> -1, url |-> "", out |-> out]

\* the tool's except clauses end the call with the result dict r and error e
SessionFails(r, e) ==
    /\ response' = Failed(r, e)
    /\ tresult' = r
    /\ tpc' = "done"

\* scrape_session once get_session has returned session s: the cookies loop
\* starts, or the fetch when there is no cookie to set
AfterGetSession(r) ==
    IF Truthy(args'.cookies) /\ args'.cookies.t # "dict"
    THEN /\ SessionFails(r, "AttributeError")
         /\ cookie_cursor' = 0
    ELSE /\ tresult' = r
         /\ response' = NoResponse
         /\ IF Truthy(args'.cookies)
            THEN cookie_cursor' = 1 /\ tpc' = "set_cookies"
            ELSE cookie_cursor' = 0 /\ tpc' = "fetch"

\* get_session lines 282-284: the session object is built and bound to _session
\* before it is started; a constructor that raises leaves _session as it was
Construct(r, c, heap, current, tr) ==
    \/ /\ engine_sessions' = Append(heap, [playwright |-> FALSE, exited |-> FALSE,
                                           options |-> to_scrapling_options(c)])
       /\ _session' = Len(heap) + 1
       /\ ttrace' = Append(tr, EngineEvent("AsyncStealthySession", "ok"))
       /\ tpc' = "start"
       /\ tresult' = r
       /\ response' = NoResponse
    \/ /\ engine_sessions' = heap
       /\ _session' = current
       /\ ttrace' = Append(tr, EngineEvent("AsyncStealthySession", "Exception"))
       /\ SessionFails(r, "RuntimeError")

\* get_session lines 271-274 with every test passing: the held session is the one
\* to return.  The faulty variant forgets to compare the profiles.
SessionReusable_AnyProfile(c) ==
    /\ _session # 0
    /\ engine_sessions[_session].playwright

SessionReusable(c) ==
    /\ _session # 0
    /\ _config_cache = << c >>
    /\ engine_sessions[_session].playwright

ScrapeSessionCall ==
    /\ server = "running" /\ pc = "idle" /\ tool = "none"
    /\ calls < MaxCalls
    /\ calls' = calls + 1
    /\ UNCHANGED << pureVars, processVars, retryVars, batchVars, _session_storage >>
    /\ tpage' = NoScraped
    /\ \E u \in UrlArgs, session_id \in SessionIdArgs, cookies \in CookiesArgs,
          stealth_level \in LevelArgs :
         LET msg == FirstError(<< _validate_url_param(u),
                                  _validate_stealth_level(stealth_level), UrlGuard(u) >>)
             sid == IF Truthy(session_id) THEN session_id ELSE PyStr("session_generated")
             c   == _get_stealth_config_by_level(stealth_level.s)
             r   == [ToolRecord(u) EXCEPT !.session_id = sid]
         IN  /\ tool' = "scrape_session"
             /\ args' = [NoArgs EXCEPT !.url = u, !.session_id = session_id,
                                       !.cookies = cookies, !.stealth_level = stealth_level]
             /\ IF msg # None
                THEN /\ response' = [Rejected(u, msg) EXCEPT !.session_id = session_id]
                     /\ tpc' = "done"
                     /\ ttrace' = <<>>
                     /\ UNCHANGED << tconfig, engine_sessions, _session, _config_cache,
                                     session, tresult, cookie_cursor >>
                ELSE /\ tconfig' = c
                     /\ IF SessionReusable(c)
                        THEN \* the global session is returned as it is
                             /\ session' = _session
                             /\ ttrace' = <<>>
                             /\ AfterGetSession(r)
                             /\ UNCHANGED << engine_sessions, _session, _config_cache >>
                        ELSE IF _session # 0
                        THEN \* await close_session()
                             /\ tpc' = "close_session"
                             /\ ttrace' = <<>>
                             /\ tresult' = r
                             /\ response' = NoResponse
                             /\ UNCHANGED << engine_sessions, _session, _config_cache,
                                             session, cookie_cursor >>
                        ELSE /\ Construct(r, c, engine_sessions, 0, <<>>)
                             /\ UNCHANGED << _config_cache, session, cookie_cursor >>

\* close_session: `await _session.__aexit__(None, None, None)` has ended, with or
\* without an exception; the globals are reset and get_session goes on to build
\* the new session
SessionClose ==
    /\ tool = "scrape_session" /\ tpc = "close_session"
    /\ UNCHANGED << pureVars, processVars, retryVars, batchVars, tool, args, tconfig, _session_storage,
                    session, tpage, cookie_cursor, calls >>
    /\ _config_cache' = <<>>
    /\ \E o \in {"ok", "Exception"} :
         LET heap == [engine_sessions EXCEPT
                         ![_session].playwright = IF o = "ok" THEN FALSE ELSE @,
                         ![_session].exited = TRUE]
         IN  Construct(tresult, tconfig, heap, 0,
                       Append(ttrace, EngineEvent("__aexit__", o)))

\* `await _session.start()` has ended
SessionStart ==
    /\ tool = "scrape_session" /\ tpc = "start"
    /\ UNCHANGED << pureVars, processVars, retryVars, batchVars, tool, args, tconfig, _session, _session_storage,
                    tpage, calls >>
    /\ \E o \in {"ok", "Exception"} :
         /\ ttrace' = Append(ttrace, EngineEvent("start", o))
         /\ IF o = "ok"
            THEN /\ engine_sessions' = [engine_sessions EXCEPT ![_session].playwright = TRUE]
                 /\ _config_cache' = << tconfig >>
                 /\ session' = _session
                 /\ AfterGetSession(tresult)
            ELSE /\ SessionFails(tresult, "RuntimeError")
                 /\ UNCHANGED << engine_sessions, _config_cache, session, cookie_cursor >>

\* `await session.set_cookies({name: value})` of one cookie has ended
SessionSetCookies ==
    /\ tool = "scrape_session" /\ tpc = "set_cookies"
    /\ UNCHANGED << pureVars, processVars, retryVars, batchVars, tool, args, tconfig, engine_sessions, _session,
                    _config_cache, _session_storage, session, tpage, calls >>
    /\ \E o \in {"ok", "Exception"} :
         /\ ttrace' = Append(ttrace, EngineEvent("set_cookies", o))
         /\ IF o # "ok"
            THEN SessionFails(tresult, o) /\ cookie_cursor' = cookie_cursor
            ELSE /\ UNCHANGED << tresult, response >>
                 /\ IF cookie_cursor < args.cookies.n
                    THEN cookie_cursor' = cookie_cursor + 1 /\ tpc' = "set_cookies"
                    ELSE cookie_cursor' = cookie_cursor /\ tpc' = "fetch"

\* the result dict once the page is formatted
SessionFormatted(p) ==
    LET formatted == format_response(p, args.url)
    IN  [tresult EXCEPT !.status_code = formatted.status, !.title = formatted.title,
                        !.text = formatted.text, !.html = formatted.html]

\* `page = await session.fetch(url, wait_for=2)` has ended.  A fetch that raises
\* may be the engine's browser having died: the session's playwright is then
\* None although nobody closed it (the case get_session line 273 tests for).
SessionFetch ==
    /\ tool = "scrape_session" /\ tpc = "fetch"
    /\ UNCHANGED << pureVars, processVars, retryVars, batchVars, tool, args, tconfig, _session,
                    _config_cache, _session_storage, session, cookie_cursor, calls >>
    /\ \E o \in EngineOutcomes, p \in SessionPages,
          died \in BOOLEAN :
         /\ died => o = "Exception"
         /\ engine_sessions' = IF died
                               THEN [engine_sessions EXCEPT ![session].playwright = FALSE]
                               ELSE engine_sessions
         /\ ttrace' = Append(ttrace, EngineEvent("fetch", o))
         /\ IF o # "ok"
            THEN SessionFails(tresult, o) /\ tpage' = tpage
            ELSE /\ tpage' = p
                 /\ IF _detect_cloudflare(p)
                    THEN IF tconfig.solve_cloudflare
                         THEN /\ tpc' = "challenge_wait"
                              /\ UNCHANGED << tresult, response >>
                         ELSE SessionFails(tresult, "CloudflareError")
                    ELSE /\ tresult' = SessionFormatted(p)
                         /\ tpc' = "get_cookies"
                         /\ response' = response

\* `await asyncio.sleep(3)` has ended
SessionChallengeWait ==
    /\ tool = "scrape_session" /\ tpc = "challenge_wait"
    /\ UNCHANGED << pureVars, processVars, retryVars, batchVars, tool, args, tconfig, response, sessionVars >>
    /\ ttrace' = Append(ttrace, EngineEvent("sleep", ""))
    /\ tpc' = "refetch"

\* `page = await session.fetch(url, wait_for=5)` has ended
SessionRefetch ==
    /\ tool = "scrape_session" /\ tpc = "refetch"
    /\ UNCHANGED << pureVars, processVars, retryVars, batchVars, tool, args, tconfig, engine_sessions, _session,
                    _config_cache, _session_storage, session, cookie_cursor, calls >>
    /\ \E o \in EngineOutcomes, p \in SessionPages :
         /\ ttrace' = Append(ttrace, EngineEvent("fetch", o))
         /\ IF o # "ok"
            THEN SessionFails(tresult, o) /\ tpage' = tpage
            ELSE /\ tpage' = p
                 /\ tresult' = SessionFormatted(p)
                 /\ tpc' = "get_cookies"
                 /\ response' = response

\* `await session.get_cookies()` has ended (an exception is swallowed); the
\* session is stored under session_id and the call returns
SessionGetCookies ==
    /\ tool = "scrape_session" /\ tpc = "get_cookies"
    /\ UNCHANGED << pureVars, processVars, retryVars, batchVars, tool, args, tconfig, engine_sessions, _session,
                    _config_cache, session, tpage, cookie_cursor, calls >>
    /\ \E o \in {"ok", "Exception"}, jar \in CookieJars :
         LET r == IF o = "ok" /\ Truthy(jar)
                  THEN [tresult EXCEPT !.cookies =
                           PyDict(<< << jar.items[1].items[1].items[1].s,
                                        jar.items[1].items[2].items[1] >> >>)]
                  ELSE tresult
         IN  /\ ttrace' = Append(ttrace, EngineEvent("get_cookies", o))
             /\ IF Hashable(r.session_id)
                THEN /\ _session_storage' =
                          { e \in _session_storage : e.key # r.session_id }
                          \cup { [key |-> r.session_id, session |-> session, config |-> tconfig] }
                     /\ tresult' = r
                     /\ response' = r
                     /\ tpc' = "done"
                ELSE /\ _session_storage' = _session_storage
                     /\ SessionFails(r, "TypeError")

\* `return result`: the handler is over and the server waits for the next call;
\* the registry is all that is left of the call
ScrapeSessionReturn ==
    /\ tool = "scrape_session" /\ tpc = "done"
    /\ calls < MaxCalls
    /\ tool' = "none"
    /\ args' = NoArgs
    /\ tpc' = "idle"
    /\ tconfig' = StealthConfigDefaults
    /\ response' = NoResponse
    /\ ttrace' = <<>>
    /\ session' = 0
    /\ tresult' = ToolRecord(PyNone)
    /\ tpage' = NoScraped
    /\ cookie_cursor' = 0
    /\ UNCHANGED << pureVars, processVars, retryVars, batchVars, engine_sessions, _session, _config_cache,
                    _session_storage, calls >>

(***************************************************************************)
(* Shutdown (server.py): _cleanup_on_shutdown and the handler of SIGINT    *)
(* and SIGTERM that main installs before mcp.run().                        *)
(***************************************************************************)
\* `_session_storage.clear()`, lines 1210-1214: the entries are logged and
\* dropped.  The faulty variant only logs them.
ClearedStorage_Kept(storage) == storage

ClearedStorage(storage) == {}

\* _cleanup_on_shutdown up to its first await: close_session awaits __aexit__ of
\* the global session if there is one; without one the coroutine runs to its end
CleanupEnter ==
    /\ tool' = "_cleanup_on_shutdown"
    /\ args' = NoArgs
    /\ tconfig' = StealthConfigDefaults
    /\ response' = NoResponse
    /\ ttrace' = <<>>
    /\ session' = 0
    /\ tresult' = ToolRecord(PyNone)
    /\ tpage' = NoScraped
    /\ cookie_cursor' = 0
    /\ UNCHANGED << pureVars, retryVars, batchVars, engine_sessions, _session, _config_cache,
                    calls >>
    /\ IF _session # 0
       THEN /\ tpc' = "close_session"
            /\ _session_storage' = _session_storage
       ELSE /\ tpc' = "done"
            /\ _session_storage' = ClearedStorage(_session_storage)

\* the coroutine _cleanup_on_shutdown is awaited while the server runs and no
\* handler is in the middle of a call
CleanupCall ==
    /\ server = "running" /\ pc = "idle"
    /\ \/ tool = "none"
       \/ tool = "scrape_session" /\ tpc = "done"
    /\ CleanupEnter
    /\ UNCHANGED processVars

\* close_session in _cleanup_on_shutdown: `await _session.__aexit__(...)` has
\* ended, the exception it may have raised is logged, the globals are reset,
\* and the rest of the cleanup runs
CleanupClose ==
    /\ tool = "_cleanup_on_shutdown" /\ tpc = "close_session"
    /\ UNCHANGED << pureVars, processVars, retryVars, batchVars, tool, args, tconfig, response,
                    session, tresult, tpage, cookie_cursor, calls >>
    /\ \E o \in {"ok", "Exception"} :
         /\ engine_sessions' = [engine_sessions EXCEPT
                                  ![_session].playwright = IF o = "ok" THEN FALSE ELSE @,
                                  ![_session].exited = TRUE]
         /\ ttrace' = Append(ttrace, EngineEvent("__aexit__", o))
    /\ _session' = 0
    /\ _config_cache' = <<>>
    /\ _session_storage' = ClearedStorage(_session_storage)
    /\ tpc' = "done"

\* main, line 1233: mcp.run() has the event loop running
ServerRun ==
    /\ server = "starting" /\ shutdown = "none"
    /\ server' = "running"
    /\ UNCHANGED << pureVars, retryVars, toolVars, shutdown >>

\* signal_handler up to sys.exit(0) or to the cleanup it drives itself.  With
\* the loop running the cleanup is only made a task and sys.exit(0) follows at
\* once: SystemExit unwinds the loop and whatever handler was running.  Before
\* mcp.run() the loop is not running: run_until_complete drives the cleanup, or
\* asyncio.get_event_loop() raises RuntimeError and the cleanup is skipped.
SignalHandler ==
    /\ \E signum \in {"SIGINT", "SIGTERM"} :
         \/ /\ server = "running" /\ pc = "idle"
            /\ tool \in {"none", "scrape_session"}
            /\ shutdown' = "scheduled"
            /\ server' = "exited"
            /\ tool' = "none"
            /\ tpc' = "idle"
            /\ UNCHANGED << pureVars, retryVars, args, tconfig, response, batchVars, ttrace,
                            sessionVars >>
         \/ /\ server = "starting" /\ tool = "none"
            /\ \/ /\ shutdown' = "running"
                  /\ server' = server
                  /\ CleanupEnter
               \/ /\ shutdown' = "skipped"
                  /\ server' = "exited"
                  /\ UNCHANGED << pureVars, retryVars, toolVars >>

\* signal_handler, lines 1187-1188: run_until_complete has returned
SignalExit ==
    /\ shutdown = "running"
    /\ tool = "_cleanup_on_shutdown" /\ tpc = "done"
    /\ shutdown' = "completed"
    /\ server' = "exited"
    /\ UNCHANGED << pureVars, retryVars, toolVars >>

(***************************************************************************)
(* The functions applied on their own: validate_url on a URL given by its  *)
(* parts.                                                                  *)
(***************************************************************************)
ValidateUrlApply ==
    /\ fn = "none"
    /\ \E parts \in UrlParts :
         /\ fn' = "validate_url"
         /\ input' = parts
         /\ output' = ValidateParsed(urlparse(parts))
    /\ UNCHANGED << retryVars, toolVars, processVars, profiles, handles, concVars >>

(***************************************************************************)
(* _extract_single_selector (stealth.py).  A selector is the sequence of   *)
(* its tokens: names, "@" and "::html".  The page answers page.get with a  *)
(* reply of the engine: it raises, returns None, an iterable of elements   *)
(* in match order, one element, or a str.                                  *)
(***************************************************************************)
SelectorSamples ==
    { << "a" >>, << "a", "@", "href" >>, << "img", "@", "src", "@", "alt" >>,
      << "a", "@", "href", "@", "rel" >>, << "div", "::html" >>,
      << "a", "::html", "@", "href" >>, << "a", "@" >> }

Element(k) ==
    [ type |-> "Element",
      text |-> PyStr("text " \o ToString(k)),
      html |-> PyStr("<a>text " \o ToString(k) \o "</a>"),
      attributes |-> [ name \in {"href", "src", "alt"} |->
                          PyStr(name \o " " \o ToString(k)) ] ]

\* the engine returned a str instead of an element
StrElement(str) == [ type |-> "str", text |-> PyStr(str), html |-> PyStr(str),
                     attributes |-> << >> ]

ElementSamples == { Element(1), Element(2) }

MatchLists ==
    UNION { [1..k -> ElementSamples] : k \in 0..MaxMatches }

QueryReplies ==
    { [kind |-> "raise", elements |-> << >>], [kind |-> "None", elements |-> << >>] }
    \cup { [kind |-> "iterable", elements |-> l] : l \in MatchLists }
    \cup { [kind |-> "element", elements |-> << e >>] :
              e \in ElementSamples \cup { StrElement("found"), StrElement("") } }

\* the page objects: one without a get method, and one for each reply of get
QueryPages ==
    { [has_get |-> FALSE, reply |-> [kind |-> "None", elements |-> << >>]] }
    \cup { [has_get |-> TRUE, reply |-> r] : r \in QueryReplies }

HasToken(sel, tok) == \E i \in DOMAIN sel : sel[i] = tok

WithoutToken(sel, tok) == SelectSeq(sel, LAMBDA t : t # tok)

\* selector.rsplit("@", 1) of a selector that holds an "@"
RSplit(sel) ==
    LET last == CHOOSE i \in DOMAIN sel :
                    /\ sel[i] = "@"
                    /\ \A j \in DOMAIN sel : sel[j] = "@" => j <= i
    IN  << SubSeq(sel, 1, last - 1), SubSeq(sel, last + 1, Len(sel)) >>

get_element_text(el) ==
    IF el.type = "Element" THEN el.text
    ELSE IF el.text.s # "" THEN el.text ELSE PyNone

get_element_html(el) ==
    IF el.type = "Element" THEN el.html
    ELSE IF el.html.s # "" THEN el.html ELSE PyNone

get_element_attribute(el, attr) ==
    IF el.type = "Element" /\ attr \in DOMAIN el.attributes
    THEN el.attributes[attr]
    ELSE PyNone

\* what is extracted from one element (lines 663-697): its HTML, the dict of
\* its attributes when attr_extraction holds an "@", one attribute, or its text
ElementValue(el, html_extraction, attr_extraction) ==
    IF html_extraction THEN get_element_html(el)
    ELSE IF attr_extraction # << >>
    THEN IF HasToken(attr_extraction, "@")
         THEN LET attrs == WithoutToken(attr_extraction, "@")
              IN  PyDict([i \in 1..Len(attrs) |->
                            << attrs[i], get_element_attribute(el, attrs[i]) >>])
         ELSE get_element_attribute(el, attr_extraction[1])
    ELSE get_element_text(el)

\* faulty variant of ListValue: a list of one value is unwrapped
ListValue_Unwrapped(values) ==
    IF Len(values) = 1 THEN values[1] ELSE PyList(values)

\* the list comprehensions of lines 663-683
ListValue(values) == PyList(values)

\* the selector given to page.get (<< >> when nothing was asked) and the value
\* returned
_extract_single_selector(pg, selector) ==
    LET html_extraction == HasToken(selector, "::html")
        split           == HasToken(selector, "@") /\ ~html_extraction
        parts           == IF split THEN RSplit(selector) ELSE << selector, << >> >>
        attr_extraction == parts[2]
        clean_selector  == WithoutToken(parts[1], "::html")
        elements        == pg.reply.elements
        Value(el)       == ElementValue(el, html_extraction, attr_extraction)
    IN  [ queried |-> IF pg.has_get THEN << clean_selector >> ELSE << >>,
          value   |-> IF ~pg.has_get \/ pg.reply.kind \in {"raise", "None"}
                      THEN PyNone
                      ELSE IF pg.reply.kind = "iterable"
                      THEN IF Len(elements) = 0
                           THEN PyNone
                           ELSE ListValue([i \in 1..Len(elements) |-> Value(elements[i])])
                      ELSE Value(elements[1]) ]

ExtractSelectorApply ==
    /\ fn = "none"
    /\ \E pg \in QueryPages, selector \in SelectorSamples :
         /\ fn' = "_extract_single_selector"
         /\ input' = [page |-> pg, selector |-> selector]
         /\ output' = _extract_single_selector(pg, selector)
    /\ UNCHANGED << retryVars, toolVars, processVars, profiles, handles, concVars >>

(***************************************************************************)
(* format_response applied on its own to page objects whose capabilities   *)
(* are missing, raise, or give a value.                                    *)
(***************************************************************************)
Caps(values) == { MissingCap, RaisingCap } \cup { ValueCap(v) : v \in values }

PageObjects ==
    [ status : Caps({ PyInt(200) }),
      css_first : Caps({ PyNone } \cup TitleElements),
      title : Caps({ PyStr("Example Domain") }),
      body : Caps({ PyStr("<html>"), PyNone }),
      html_content : Caps({ PyStr("<html>") }),
      get_all_text : Caps({ PyStr("Example") }),
      text : Caps({ PyStr("Example") }),
      found : { PyStr("Example") } ]

FormatResponseApply ==
    /\ fn = "none"
    /\ \E pg \in PageObjects,
          selectors \in { PyNone, PyDict(<< <<"title", PyStr("h1")>> >>) } :
         /\ fn' = "format_response"
         /\ input' = [page |-> pg, url |-> "https://example.com", selectors |-> selectors]
         /\ output' = FormatResponse(pg, "https://example.com", selectors)
    /\ UNCHANGED << retryVars, toolVars, processVars, profiles, handles, concVars >>

Next ==
    \/ ScrapeWithRetryCall
    \/ OpenSession
    \/ Fetch
    \/ ChallengeWait
    \/ Refetch
    \/ CloseSession
    \/ BackoffSleep
    \/ ScrapeBatchCall
    \/ BatchScrape
    \/ BatchSleep
    \/ ScrapeSimpleCall
    \/ ScrapeSimpleScrape
    \/ ScrapeStealthCall
    \/ ScrapeStealthScrape
    \/ ExtractStructuredCall
    \/ ExtractStructuredScrape
    \/ ScrapeSessionCall
    \/ SessionClose
    \/ SessionStart
    \/ SessionSetCookies
    \/ SessionFetch
    \/ SessionChallengeWait
    \/ SessionRefetch
    \/ SessionGetCookies
    \/ ScrapeSessionReturn
    \/ CleanupCall
    \/ CleanupClose
    \/ ServerRun
    \/ SignalHandler
    \/ SignalExit

Spec == Init /\ [][Next]_vars

(***************************************************************************)
(* The preset constructors (get_minimal_stealth, get_standard_stealth,     *)
(* get_maximum_stealth, reached through _get_stealth_config_by_level) and  *)
(* the assignments callers make to the attributes of a profile they hold.  *)
(***************************************************************************)
PresetLevels == { "minimal", "standard", "maximum" }

\* a constructor that hands out the object of an earlier call of the same
\* preset instead of a new one
NewObject_Shared(heap, earlier, level) ==
    IF \E i \in 1..Len(earlier) : earlier[i].level = level
    THEN earlier[CHOOSE i \in 1..Len(earlier) : earlier[i].level = level].ref
    ELSE Len(heap) + 1

\* StealthConfig(...) in a constructor creates a new object
NewObject(heap, earlier, level) == Len(heap) + 1

PresetCall ==
    /\ fn \in {"none", "presets"}
    /\ Len(handles) < MaxProfiles
    /\ \E level \in PresetLevels :
         LET ref  == NewObject(profiles, handles, level)
             heap == IF ref > Len(profiles)
                     THEN Append(profiles, _get_stealth_config_by_level(level))
                     ELSE profiles
         IN  /\ profiles' = heap
             /\ handles' = Append(handles, [level |-> level, ref |-> ref,
                                            returned |-> heap[ref]])
    /\ fn' = "presets"
    /\ UNCHANGED << input, output, retryVars, toolVars, processVars, concVars >>

\* attribute assignments on a profile: the ones the tools make (timeout,
\* solve_cloudflare) and assignments to the other attributes the presets fix
Mutations == { "timeout", "solve_cloudflare", "geoip", "humanize", "block_images" }

Assign(c, field) ==
    CASE field = "timeout"          -> [c EXCEPT !.timeout = 1]
      [] field = "solve_cloudflare" -> [c EXCEPT !.solve_cloudflare = FALSE]
      [] field = "geoip"            -> [c EXCEPT !.geoip = FALSE]
      [] field = "humanize"         -> [c EXCEPT !.humanize = TRUE]
      [] OTHER                      -> [c EXCEPT !.block_images = FALSE]

ProfileMutate ==
    /\ fn = "presets"
    /\ \E i \in 1..Len(handles), m \in Mutations :
         /\ Assign(profiles[handles[i].ref], m) # profiles[handles[i].ref]
         /\ profiles' = [profiles EXCEPT ![handles[i].ref] = Assign(@, m)]
    /\ UNCHANGED << fn, input, output, handles, retryVars, toolVars, processVars, concVars >>

\* the functions that read nothing but their arguments, applied on their own,
\* and the preset constructors
NextPure ==
    \/ ValidateUrlApply
    \/ ExtractSelectorApply
    \/ FormatResponseApply
    \/ PresetCall
    \/ ProfileMutate

Pure == Init /\ [][NextPure]_vars

(***************************************************************************)
(* The session registry under concurrent calls.  A task runs from one      *)
(* await to the next without interruption; between two awaits of one task  *)
(* the other tasks may run.  scrape_session is followed from its call of   *)
(* get_session to the end of its fetch; the session ids of the tasks are   *)
(* different (the registry is not keyed by them).                          *)
(***************************************************************************)
\* what the registry's variables leave alone
registryFrame ==
    << retryVars, processVars, fn, input, output, profiles, handles,
       tool, args, tpc, tconfig, response, batchVars, ttrace, _session_storage,
       session, tresult, tpage, cookie_cursor, calls >>

ConcLevels == { "standard", "maximum" }

\* get_session returns s to the task: scrape_session goes on to
\* `await session.fetch(url, wait_for=2)`, which fails at once on None
Returned(tk, s) ==
    IF tk.op = "scrape_session"
    THEN IF s = 0
         THEN [tk EXCEPT !.pc = "done", !.session = s, !.error = "AttributeError"]
         ELSE [tk EXCEPT !.pc = "fetch", !.session = s]
    ELSE [tk EXCEPT !.pc = "done", !.session = s]

\* get_session lines 281-288: the session is built, bound to _session and its
\* start() awaited; a constructor that raises gives RuntimeError
Create(t, tk, heap, current) ==
    \/ /\ engine_sessions' = Append(heap, [playwright |-> FALSE, exited |-> FALSE,
                                           options |-> to_scrapling_options(tk.config)])
       /\ _session' = Len(heap) + 1
       /\ tasks' = [tasks EXCEPT ![t] = [tk EXCEPT !.pc = "start", !.target = Len(heap) + 1]]
    \/ /\ engine_sessions' = heap
       /\ _session' = current
       /\ tasks' = [tasks EXCEPT ![t] = [tk EXCEPT !.pc = "done", !.error = "RuntimeError"]]

\* close_session lines 309-312: __aexit__ of the held session is awaited
EnterClose(t, tk) ==
    /\ tasks' = [tasks EXCEPT ![t] = [tk EXCEPT !.pc = "aexit", !.target = _session]]
    /\ exit_log' = Append(exit_log, [ref |-> _session, by |-> t, op |-> tk.op])
    /\ UNCHANGED << engine_sessions, _session, _config_cache >>

\* get_session lines 265-279, up to its first await or its return
EnterGetSession(t, tk) ==
    IF SessionReusable(tk.config)
    THEN /\ tasks' = [tasks EXCEPT ![t] = Returned(tk, _session)]
         /\ UNCHANGED << engine_sessions, _session, _config_cache, exit_log >>
    ELSE IF _session # 0
    THEN EnterClose(t, tk)
    ELSE /\ Create(t, tk, engine_sessions, _session)
         /\ UNCHANGED << _config_cache, exit_log >>

TaskFree(t) == tasks[t].pc \in {"idle", "done"} /\ ops < MaxOps

\* scrape_session, from `session = await get_session(config)` (server.py:671)
ScrapeSessionTask ==
    /\ \E t \in Tasks, level \in ConcLevels :
         /\ TaskFree(t)
         /\ EnterGetSession(t, [IdleTask EXCEPT !.op = "scrape_session",
                                  !.config = _get_stealth_config_by_level(level)])
    /\ ops' = ops + 1
    /\ UNCHANGED registryFrame

\* get_session called on its own
GetSessionTask ==
    /\ \E t \in Tasks, level \in ConcLevels :
         /\ TaskFree(t)
         /\ EnterGetSession(t, [IdleTask EXCEPT !.op = "get_session",
                                  !.config = _get_stealth_config_by_level(level)])
    /\ ops' = ops + 1
    /\ UNCHANGED registryFrame

\* close_session called on its own
CloseSessionTask ==
    /\ \E t \in Tasks :
         /\ TaskFree(t)
         /\ LET tk == [IdleTask EXCEPT !.op = "close_session"]
            IN  IF _session # 0
                THEN EnterClose(t, tk)
                ELSE /\ tasks' = [tasks EXCEPT ![t] = [tk EXCEPT !.pc = "done"]]
                     /\ UNCHANGED << engine_sessions, _session, _config_cache, exit_log >>
    /\ ops' = ops + 1
    /\ UNCHANGED registryFrame

\* close_session lines 312-318: __aexit__ has ended, with or without an
\* exception; the finally clause empties the globals, whatever they hold by
\* now, and get_session goes on to build its session
TaskAexitDone ==
    /\ \E t \in Tasks, o \in {"ok", "Exception"} :
         LET tk   == tasks[t]
             heap == [engine_sessions EXCEPT
                         ![tk.target].playwright = IF o = "ok" THEN FALSE ELSE @,
                         ![tk.target].exited = TRUE]
         IN  /\ tk.pc = "aexit"
             /\ _config_cache' = << >>
             /\ IF tk.op = "close_session"
                THEN /\ engine_sessions' = heap
                     /\ _session' = 0
                     /\ tasks' = [tasks EXCEPT ![t] = [tk EXCEPT !.pc = "done"]]
                ELSE Create(t, tk, heap, 0)
    /\ UNCHANGED << exit_log, ops >>
    /\ UNCHANGED registryFrame

\* get_session lines 286-297: start() of the session the task built has ended;
\* _config_cache is set and the value of _session at this moment is returned
TaskStartDone ==
    /\ \E t \in Tasks, o \in {"ok", "Exception"} :
         LET tk == tasks[t]
         IN  /\ tk.pc = "start"
             /\ IF o = "ok"
                THEN /\ engine_sessions' = [engine_sessions EXCEPT ![tk.target].playwright = TRUE]
                     /\ _config_cache' = << tk.config >>
                     /\ tasks' = [tasks EXCEPT ![t] = Returned(tk, _session)]
                ELSE /\ tasks' = [tasks EXCEPT ![t] = [tk EXCEPT !.pc = "done",
                                                                !.error = "RuntimeError"]]
                     /\ UNCHANGED << engine_sessions, _config_cache >>
    /\ UNCHANGED << _session, exit_log, ops >>
    /\ UNCHANGED registryFrame

\* scrape_session: `await session.fetch(url, wait_for=2)` has ended
TaskFetchDone ==
    /\ \E t \in Tasks, o \in {"ok", "Exception"} :
         /\ tasks[t].pc = "fetch"
         /\ tasks' = [tasks EXCEPT ![t].pc = "done",
                                   ![t].error = IF o = "ok" THEN None ELSE "Exception"]
    /\ UNCHANGED << engine_sessions, _session, _config_cache, exit_log, ops >>
    /\ UNCHANGED registryFrame

NextConcurrent ==
    \/ ScrapeSessionTask
    \/ GetSessionTask
    \/ CloseSessionTask
    \/ TaskAexitDone
    \/ TaskStartDone
    \/ TaskFetchDone

Concurrent == Init /\ [][NextConcurrent]_vars

(***************************************************************************)
(* scrape_with_retry called on its own, under the assumption that every    *)
(* awaited engine call and every sleep returns (or raises): each await of  *)
(* the call is weakly fair.                                                *)
(***************************************************************************)
NextRetry ==
    \/ ServerRun
    \/ ScrapeWithRetryCall
    \/ OpenSession
    \/ Fetch
    \/ ChallengeWait
    \/ Refetch
    \/ CloseSession
    \/ BackoffSleep

Retry ==
    /\ Init /\ [][NextRetry]_vars
    /\ WF_vars(OpenSession)
    /\ WF_vars(Fetch)
    /\ WF_vars(ChallengeWait)
    /\ WF_vars(Refetch)
    /\ WF_vars(CloseSession)
    /\ WF_vars(BackoffSleep)


(***************************************************************************)
(* Properties of scrape_with_retry.                                        *)
(***************************************************************************)
Attempts == trace.attempts

\* the error the claims expect of an attempt that ended by raising e
ExpectedError(e) ==
    CASE e = "CloudflareError"      -> "CloudflareError"
      [] e = "BlockedError"         -> "BlockedError"
      [] e = "asyncio.TimeoutError" -> "TimeoutError"
      [] OTHER                      -> "ScrapeError"

\* C1: if the first successful attempt is attempt k (1 <= k <= max_retries), the call
\* has ended returning the page fetched in attempt k, no attempt follows attempt k,
\* and exactly k-1 backoff sleeps were made; and a call returns a page only so.
C1_FirstSuccessReturns ==
    /\ \A k \in 1..Len(Attempts) :
         Attempts[k].ended = "return" =>
            /\ k <= max_retries
            /\ pc = "done"
            /\ result.kind = "return"
            /\ result.page.attempt = k - 1
            /\ result.page.fetch \in {1, 2}
            /\ Len(Attempts) = k
            /\ attempt = k - 1
            /\ trace.opened <= k
            /\ trace.backoff = k - 1
    /\ result.kind = "return" =>
            /\ Len(Attempts) >= 1
            /\ Attempts[Len(Attempts)].ended = "return"

\* C1 witness: attempt 1 failed, attempt 2 succeeded, a 3rd attempt was allowed
C1_Witness ==
    /\ max_retries = 3
    /\ Len(Attempts) = 2
    /\ Attempts[1].ended # "return"
    /\ Attempts[2].ended = "return"
    /\ result.kind = "return"
    /\ trace.backoff = 1

\* C2: when all max_retries (>= 1) attempts fail, the call has made exactly
\* max_retries attempts and max_retries-1 backoff sleeps and raises the error of
\* the last attempt: CloudflareError, BlockedError, TimeoutError or ScrapeError.
C2_ExhaustionRaisesLast ==
    /\ (pc = "done" /\ result.kind = "raise" /\ validate_url(url) /\ max_retries >= 1) =>
            /\ Len(Attempts) = max_retries
            /\ \A i \in 1..Len(Attempts) : Attempts[i].ended # "return"
            /\ trace.backoff = max_retries - 1
            /\ result.error.type = ExpectedError(Attempts[max_retries].ended)
    /\ (max_retries >= 1 /\ Len(Attempts) = max_retries
          /\ Attempts[max_retries].ended # "return") =>
            /\ pc = "done"
            /\ result.kind = "raise"

\* C2 witness: three failed attempts of different classes, the last a timeout
C2_Witness ==
    /\ pc = "done"
    /\ max_retries = 3
    /\ Len(Attempts) = 3
    /\ Attempts[1].ended = "BlockedError"
    /\ Attempts[2].ended = "CloudflareError"
    /\ Attempts[3].ended = "asyncio.TimeoutError"
    /\ result.kind = "raise"
    /\ result.error.type = "TimeoutError"

\* C3: with a pool of n > 1 proxies, while every attempt so far ended in BlockedError
\* attempt i (0-based) is made through proxy_list[i mod n]; and when all max_retries
\* attempts ended in BlockedError the call raises BlockedError.
C3_ProxyCycle ==
    LET n == Len(proxy_list)
    IN  /\ \A i \in 1..Len(Attempts) :
             (n > 1 /\ \A j \in 1..(i - 1) : Attempts[j].ended = "BlockedError") =>
                Attempts[i].proxy = proxy_list[((i - 1) % n) + 1]
        /\ (n > 1 /\ max_retries >= 1 /\ Len(Attempts) = max_retries
              /\ \A j \in 1..Len(Attempts) : Attempts[j].ended = "BlockedError") =>
                /\ pc = "done"
                /\ result.kind = "raise"
                /\ result.error.type = "BlockedError"

\* C3 witness: 3 proxies, 3 attempts, all blocked (index 0 -> 1 -> 2)
C3_Witness ==
    /\ Len(proxy_list) = 3
    /\ max_retries = 3
    /\ Len(Attempts) = 3
    /\ \A j \in 1..3 : Attempts[j].ended = "BlockedError"
    /\ Attempts[3].proxy = proxy_list[3]
    /\ pc = "done"

\* C4 as stated: a CloudflareError (challenge detected, solve_cloudflare false) is
\* terminal, no attempt follows the attempt that raised it.
C4_ChallengeTerminal ==
    \A i \in 1..Len(Attempts) :
        Attempts[i].ended = "CloudflareError" =>
            /\ pc = "done"
            /\ Len(Attempts) = i

\* C4 amended: a CloudflareError is raised only with solve_cloudflare false and is
\* caught by the retry loop: the call ends with it (raising CloudflareError) only
\* when it was the last of the max_retries attempts, and otherwise goes on to the
\* backoff sleep and the next attempt.
C4_ChallengeRetried ==
    \A i \in 1..Len(Attempts) :
        Attempts[i].ended = "CloudflareError" =>
            /\ ~config.solve_cloudflare
            /\ IF i = max_retries
               THEN /\ pc = "done"
                    /\ result.kind = "raise"
                    /\ result.error.type = "CloudflareError"
               ELSE /\ i < max_retries
                    /\ pc = "done" => Len(Attempts) > i
                    /\ \/ Len(Attempts) = i /\ pc = "backoff"
                       \/ trace.backoff >= i

\* C4 witness: attempt 1 was challenged and attempt 2 was made
C4_Witness ==
    /\ Len(Attempts) >= 2
    /\ Attempts[1].ended = "CloudflareError"
    /\ trace.opened >= 2

(***************************************************************************)
(* Properties of scrape_batch.                                             *)
(***************************************************************************)
\* the call was given a list of 1 to 100 strings
UrlsAccepted == tool = "scrape_batch" /\ HasLen(args.urls) /\ _validate_urls_list(args.urls) = None

\* ... and a stealth_level and a delay that pass validation
BatchAccepted ==
    /\ UrlsAccepted
    /\ _validate_stealth_level(args.stealth_level) = None
    /\ _validate_delay(args.delay) = None

BatchReturned == tool = "scrape_batch" /\ tpc = "done" /\ response.kind = "record"

ScrapeEvents == SelectSeq(ttrace, LAMBDA e : e.ev = "scrape_with_retry")

SleepEvents == SelectSeq(ttrace, LAMBDA e : e.ev = "sleep")

\* the indexes (from 0) of the entries of urls that validate_url allows, in input order
AllowedIdx ==
    SelectSeq([i \in 1..args.urls.n |-> i - 1],
              LAMBDA j : validate_url(args.urls.items[j + 1].s))

\* the outcome of the fetch of urls[idx], "" when it was not fetched
OutcomeOf(idx) ==
    IF \E k \in 1..Len(ScrapeEvents) : ScrapeEvents[k].idx = idx
    THEN ScrapeEvents[CHOOSE k \in 1..Len(ScrapeEvents) : ScrapeEvents[k].idx = idx].out
    ELSE ""

\* C7: for every call of scrape_batch with a list of N strings (1 <= N <= 100),
\* whatever stealth_level and delay are and whatever happened to each URL, the
\* results array that is returned has length N and results[i] is the record of
\* urls[i]: it carries that URL, and an error exactly when that URL was rejected
\* or its fetch failed.
C7_ResultsAligned ==
    (BatchReturned /\ UrlsAccepted) =>
        /\ Len(response.results) = args.urls.n
        /\ \A i \in 1..args.urls.n :
             /\ i \in DOMAIN response.results
             /\ ~response.results[i].none
             /\ response.results[i].url = args.urls.items[i]
             /\ (response.results[i].error = PyNone) <=> (OutcomeOf(i - 1) = "page")

\* the call of C7 that returns no slot at all: an unknown stealth_level
C7_Witness ==
    /\ BatchReturned /\ UrlsAccepted
    /\ _validate_stealth_level(args.stealth_level) # None
    /\ args.urls.n = 2
    /\ response.total = 2
    /\ response.results = <<>>

\* C7, for the calls whose stealth_level and delay pass validation: the results
\* array has length N and results[i] is the record of urls[i].
C7_ResultsAlignedWhenAccepted ==
    (BatchReturned /\ BatchAccepted) =>
        /\ Len(response.results) = args.urls.n
        /\ \A i \in 1..args.urls.n :
             /\ ~response.results[i].none
             /\ response.results[i].url = args.urls.items[i]
             /\ (response.results[i].error = PyNone) <=> (OutcomeOf(i - 1) = "page")

\* C8: in every result of scrape_batch for a list of N strings (1 <= N <= 100),
\* successful + failed = total = N, whatever is rejected, fetched or failed and
\* also when stealth_level or delay fail validation.
C8_CountsAddUp ==
    (BatchReturned /\ UrlsAccepted) =>
        /\ response.total = args.urls.n
        /\ response.successful + response.failed = response.total
        /\ response.successful >= 0 /\ response.failed >= 0
        /\ BatchAccepted =>
             response.successful =
                 Cardinality({k \in 1..Len(ScrapeEvents) : ScrapeEvents[k].out = "page"})

\* a batch of three URLs: one rejected, one fetched, one whose fetch failed
C8_Witness ==
    /\ BatchReturned /\ BatchAccepted
    /\ args.urls.n = 3
    /\ Len(invalid_urls) = 1
    /\ response.successful = 1
    /\ response.failed = 2
    /\ \E k \in 1..Len(ScrapeEvents) : ScrapeEvents[k].out = "TimeoutError"

\* C8 also covers the calls that fail validation of stealth_level or delay
C8_WitnessRejectedArgument ==
    /\ BatchReturned /\ UrlsAccepted /\ ~BatchAccepted
    /\ args.urls.n = 3
    /\ response.failed = 3

\* C9: scrape_batch sleeps `delay` between every two consecutive fetches and not
\* after the last one: a batch that fetched m URLs has slept exactly m-1 times,
\* wherever the allowed and the rejected URLs stand in the list.
C9_DelayBetweenFetches ==
    (BatchReturned /\ BatchAccepted /\ Len(ScrapeEvents) > 0) =>
        /\ Len(SleepEvents) = Len(ScrapeEvents) - 1
        /\ \A k \in 1..Len(ttrace) :
             ttrace[k].ev = IF k % 2 = 1 THEN "scrape_with_retry" ELSE "sleep"

\* a rejected URL stands before two allowed ones: two fetches and no sleep between
C9_Witness ==
    /\ BatchReturned /\ BatchAccepted
    /\ args.urls.items = << PyStr("http://localhost"), PyStr("https://example.com"),
                            PyStr("https://example.com") >>
    /\ Len(ScrapeEvents) = 2
    /\ Len(SleepEvents) = 0

\* what the code keeps of C9: a sleep follows the fetch of urls[idx] exactly when
\* idx < len(validated_urls) - 1, so there are at most m-1 sleeps, none after the
\* last fetch, and exactly m-1 when no rejected URL stands before an allowed one.
C9_DelayByIndex ==
    (BatchReturned /\ BatchAccepted /\ Len(ScrapeEvents) > 0) =>
        /\ Len(SleepEvents) <= Len(ScrapeEvents) - 1
        /\ ttrace[Len(ttrace)].ev = "scrape_with_retry"
        /\ \A k \in 1..Len(ScrapeEvents) :
             (\E j \in 1..Len(SleepEvents) : SleepEvents[j].idx = ScrapeEvents[k].idx)
                 <=> ScrapeEvents[k].idx < Len(AllowedIdx) - 1
        /\ (\A k \in 1..Len(AllowedIdx) : AllowedIdx[k] = k - 1)
               => Len(SleepEvents) = Len(ScrapeEvents) - 1

\* C10: scrape_batch fetches the URLs validate_url allows one at a time, in input
\* order, each exactly once; once stealth_level and delay passed validation, a
\* failure of any class on one URL never prevents the later URLs from being
\* fetched, and it ends up in that URL's own slot (and in one entry of errors)
\* and in no other slot.
C10_SequentialAndIsolated ==
    (tool = "scrape_batch" /\ HasLen(args.urls)) =>
        /\ Len(ScrapeEvents) > 0 => BatchAccepted
        /\ BatchAccepted =>
             /\ Len(ScrapeEvents) <= Len(AllowedIdx)
             /\ \A k \in 1..Len(ScrapeEvents) :
                  /\ ScrapeEvents[k].idx = AllowedIdx[k]
                  /\ ScrapeEvents[k].url = args.urls.items[AllowedIdx[k] + 1].s
             /\ tpc = "scrape" => AllowedIdx[Len(ScrapeEvents) + 1] = validated_urls[cursor][1]
             /\ BatchReturned =>
                  /\ Len(ScrapeEvents) = Len(AllowedIdx)
                  /\ \A i \in 1..args.urls.n :
                       LET out == OutcomeOf(i - 1)
                           own == {k \in 1..Len(response.errors) : response.errors[k].index = i - 1}
                       IN  /\ out = "page" =>
                                response.results[i].error = PyNone /\ own = {}
                           /\ out \notin {"page", ""} =>
                                /\ response.results[i].error = PyStr(ToolErrorText(out))
                                /\ Cardinality(own) = 1
                                /\ \A k \in own : response.errors[k].error = BatchErrorText(out)
                           /\ out = "" =>
                                /\ response.results[i].error = PyStr("Invalid or disallowed URL")
                                /\ Cardinality(own) = 1

\* the first URL's fetch is blocked, the second times out, the third succeeds
C10_Witness ==
    /\ BatchReturned /\ BatchAccepted
    /\ Len(ScrapeEvents) = 3
    /\ ScrapeEvents[1].out = "BlockedError"
    /\ ScrapeEvents[2].out = "TimeoutError"
    /\ ScrapeEvents[3].out = "page"
    /\ response.results[1].error = PyStr("Request blocked: ")
    /\ response.results[3].error = PyNone
    /\ response.successful = 1

(***************************************************************************)
(* Properties of the five tools.                                           *)
(***************************************************************************)
Tools == {"scrape_simple", "scrape_stealth", "scrape_session", "extract_structured",
          "scrape_batch"}

ToolDone == tool \in Tools /\ tpc = "done"

\* the URL argument is a string that validate_url rejects
UrlDisallowed == IsStr(args.url) /\ ~validate_url(args.url.s)

\* one of the validators of the tool called objects to its arguments
ValidationFails ==
    CASE tool = "scrape_simple" ->
            \/ _validate_url_param(args.url) # None
            \/ _validate_selector(args.selector) # None
            \/ _validate_extract(args.extract) # None
            \/ _validate_timeout(args.timeout) # None
      [] tool = "scrape_stealth" ->
            \/ _validate_url_param(args.url) # None
            \/ _validate_stealth_level(args.stealth_level) # None
            \/ _validate_timeout(args.timeout) # None
      [] tool = "scrape_session" ->
            \/ _validate_url_param(args.url) # None
            \/ _validate_stealth_level(args.stealth_level) # None
      [] tool = "extract_structured" ->
            \/ args.selectors.t # "dict"
            \/ _validate_url_param(args.url) # None
            \/ _validate_stealth_level(args.stealth_level) # None
      [] tool = "scrape_batch" ->
            \/ ~HasLen(args.urls)
            \/ _validate_urls_list(args.urls) # None
            \/ _validate_stealth_level(args.stealth_level) # None
            \/ _validate_delay(args.delay) # None
      [] OTHER -> FALSE

\* C5: whatever the values and the types of its arguments, each of the five
\* tools ends by returning a result record: no exception crosses the tool
\* boundary.
C5_NeverFaultsTheCaller ==
    ToolDone => response.kind = "record"

\* scrape_batch(urls=None): len(urls) in the entry log line raises TypeError
C5_Witness ==
    /\ tool = "scrape_batch" /\ tpc = "done"
    /\ args.urls = PyNone
    /\ response = Fault("TypeError")

\* C5, for the four tools of one URL: each of them returns a result record
\* whatever its arguments; and so does scrape_batch once urls has a length and
\* delay is not NaN.
C5_RecordUnlessBatchFaults ==
    ToolDone =>
        \/ response.kind = "record"
        \/ /\ tool = "scrape_batch"
           /\ response.kind = "exception"
           /\ \/ ~HasLen(args.urls) /\ response.error = "TypeError"
              \/ args.delay = PyNaN /\ response.error = "ValueError"

\* C6: a call whose arguments fail validation, or whose URL validate_url rejects,
\* opens no engine session and issues no fetch, in each of the five tools (they
\* return before get_session and scrape_with_retry are called, and scrape_batch
\* never hands a rejected URL to scrape_with_retry) and in scrape_with_retry
\* itself, which raises ValueError before its first attempt: the URL is neither
\* attempted nor retried.
C6_NoEngineWorkWhenRejected ==
    /\ (pc # "idle" /\ ~validate_url(url)) =>
          /\ pc = "done"
          /\ result.kind = "raise" /\ result.error.type = "ValueError"
          /\ trace = NoTrace
          /\ options = NoOptions
    /\ (tool \in Tools \ {"scrape_batch"} /\ (ValidationFails \/ UrlDisallowed)) =>
          /\ tpc = "done"
          /\ ttrace = <<>>
          /\ response.kind = "record" /\ response.error # PyNone
          /\ tool = "scrape_session" => session = 0
    /\ (tool = "scrape_batch" /\ ValidationFails) =>
          /\ tpc = "done"
          /\ ttrace = <<>>
    /\ tool = "scrape_batch" =>
          \A k \in 1..Len(ttrace) :
             ttrace[k].ev = "scrape_with_retry" => validate_url(ttrace[k].url)

\* scrape_session("http://localhost") while the registry holds a started session
C6_Witness ==
    /\ tool = "scrape_session" /\ tpc = "done"
    /\ args.url = PyStr("http://localhost")
    /\ _validate_stealth_level(args.stealth_level) = None
    /\ response.error = PyStr(DisallowedUrl)
    /\ _session # 0 /\ engine_sessions[_session].playwright
    /\ ttrace = <<>>

\* scrape_with_retry("http://169.254.169.254/latest") with three retries allowed
C6_WitnessRetry ==
    /\ pc = "done"
    /\ url = "http://169.254.169.254/latest"
    /\ max_retries = 3
    /\ result.kind = "raise" /\ result.error.type = "ValueError"
    /\ trace.opened = 0 /\ trace.fetches = 0

\* scrape_batch(["http://localhost", "https://example.com"]): one fetch, of the second
C6_WitnessBatch ==
    /\ BatchReturned
    /\ args.urls.items = << PyStr("http://localhost"), PyStr("https://example.com") >>
    /\ Len(ttrace) = 1 /\ ttrace[1].idx = 1

(***************************************************************************)
(* The session registry                                                    *)
(***************************************************************************)
\* scrape_session holds a session and is using it, or is about to
UsingSession ==
    /\ tool = "scrape_session"
    /\ tpc \in {"set_cookies", "fetch", "challenge_wait", "refetch", "get_cookies"}

\* the entries stored under the session_id of the running call
StoredUnderId == { e \in _session_storage : e.key = tresult.session_id }

\* C11: a call whose session_id is already in the named-session map fetches
\* through the engine session stored under that id, and no two distinct
\* session_ids of the map hold the same engine session.
C11_NamedSessionsIndependent ==
    /\ UsingSession => \A e \in StoredUnderId : session = e.session
    /\ \A e1, e2 \in _session_storage : e1.key # e2.key => e1.session # e2.session

\* two session_ids of the map hold one engine session
C11_Witness ==
    \E e1, e2 \in _session_storage :
        /\ e1.key = PyStr("s1")
        /\ e2.key # e1.key
        /\ e1.session = e2.session

\* a call with a stored session_id fetches through another engine session than
\* the one stored under it
C11_WitnessOtherSession ==
    /\ UsingSession /\ tpc = "fetch"
    /\ \E e \in StoredUnderId : session # e.session

\* C12: every engine session held in the named-session map is still open: no
\* call that asked for another stealth profile has exited it.
C12_NamedSessionsStayOpen ==
    \A e \in _session_storage : ~ engine_sessions[e.session].exited

\* the session stored under "s1" was exited by a later call with another
\* stealth level, and is still in the map
C12_Witness ==
    /\ calls = 2
    /\ tool = "scrape_session" /\ tpc = "start"
    /\ \E e \in _session_storage :
          /\ e.key = PyStr("s1")
          /\ e.config # tconfig
          /\ engine_sessions[e.session].exited
          /\ ~ engine_sessions[e.session].playwright
          /\ Len(engine_sessions) = 2

\* a step that is a call of scrape_session reaching get_session(config)
GetSessionStep ==
    /\ tool = "none" /\ tool' = "scrape_session"
    /\ ~ (ValidationFails \/ UrlDisallowed)'

\* the engine sessions that were built and not exited since
OpenSessions == { i \in DOMAIN engine_sessions : ~ engine_sessions[i].exited }

\* C13: get_session(profile) returns the held global session, exiting and
\* creating no engine session, exactly when a session is held, the cached
\* profile equals the requested one and the held session's playwright is not
\* None; in every other case where a session is held it is exited before the
\* new one is created, so at most one global session is open at any time.
C13_ReuseOrCloseThenRecreate ==
    [][ /\ GetSessionStep =>
             IF /\ _session # 0
                /\ _config_cache = << tconfig' >>
                /\ engine_sessions[_session].playwright
             THEN /\ session' = _session
                  /\ ttrace' = <<>>
                  /\ UNCHANGED << engine_sessions, _session, _config_cache >>
             ELSE /\ session' = 0
                  /\ _session # 0 => /\ tpc' = "close_session"
                                     /\ UNCHANGED << engine_sessions, _session >>
        /\ Len(engine_sessions') > Len(engine_sessions) =>
             \A i \in DOMAIN engine_sessions : engine_sessions'[i].exited
        /\ OpenSessions' \subseteq { _session' }
      ]_vars

\* the second call asked for the profile of the first and got its session back
C13_Witness ==
    /\ calls = 2
    /\ tool = "scrape_session" /\ tpc = "fetch"
    /\ ttrace = <<>>
    /\ session = 1 /\ _session = 1
    /\ Len(engine_sessions) = 1

\* the second call asked for another profile: the first session was exited
\* and the second one built
C13_WitnessRecreated ==
    /\ calls = 2
    /\ tool = "scrape_session" /\ tpc = "fetch"
    /\ session = 2 /\ _session = 2
    /\ engine_sessions[1].exited /\ ~ engine_sessions[2].exited
    /\ \E e \in _session_storage : e.config # tconfig

\* the held session had the requested profile but its playwright was None
C13_WitnessDead ==
    /\ calls = 2
    /\ tool = "scrape_session" /\ tpc = "close_session"
    /\ _config_cache = << tconfig >>
    /\ ~ engine_sessions[_session].playwright

(***************************************************************************)
(* Shutdown                                                                *)
(***************************************************************************)
CleanupDone == tool = "_cleanup_on_shutdown" /\ tpc = "done"

C14_WitnessNothingOpen ==
    /\ CleanupDone
    /\ server = "running"
    /\ engine_sessions = <<>>
    /\ ttrace = <<>>

\* C15: when SIGINT or SIGTERM is received, the shutdown cleanup has completed
\* before the process exits.
C15_CleanupBeforeExit ==
    server = "exited" => shutdown = "completed"

\* the signal came while the loop was running and a global session was open:
\* the process has exited, the cleanup is a task that never ran, the session
\* was not exited
C15_Witness ==
    /\ server = "exited"
    /\ shutdown = "scheduled"
    /\ _session # 0
    /\ engine_sessions[_session].playwright
    /\ ~ engine_sessions[_session].exited
    /\ _session_storage # {}

\* the signal came before mcp.run(): run_until_complete drove the cleanup
C15_WitnessCompleted ==
    /\ server = "exited"
    /\ shutdown = "completed"

(***************************************************************************)
(* validate_url                                                            *)
(***************************************************************************)
\* validate_url was applied to an http or https URL
HttpUrlValidated == fn = "validate_url" /\ input.scheme \in {"http", "https"}

\* C16: validate_url returns false for every http/https URL whose host is
\* localhost, 127.0.0.1, 0.0.0.0, ::1, :: or localhost.localdomain, or an IPv4
\* literal in 10.0.0.0/8, 172.16.0.0/12, 192.168.0.0/16 or 169.254.0.0/16, with
\* or without a port, path or query.
C16_LocalAndPrivateRejected ==
    /\ HttpUrlValidated
    /\ input.userinfo = ""
    /\ input.host.class \in {"localhost", "127.0.0.1", "0.0.0.0", "::1", "::",
                              "localhost.localdomain", "10.0.0.0/8", "172.16.0.0/12",
                              "192.168.0.0/16", "169.254.0.0/16"}
    => output = FALSE

\* http://[::1]:8080/a is allowed
C16_Witness ==
    /\ HttpUrlValidated
    /\ input.userinfo = ""
    /\ input.host.text = << "[", ":", ":", "1", "]" >>
    /\ input.port = "8080" /\ input.tail = "/a"
    /\ output = TRUE

\* the hosts of the claim that are written without a colon are all rejected
C16_RejectedWhenNoColonInHost ==
    /\ HttpUrlValidated
    /\ input.userinfo = ""
    /\ input.host.class \in {"localhost", "127.0.0.1", "0.0.0.0",
                              "localhost.localdomain", "10.0.0.0/8", "172.16.0.0/12",
                              "192.168.0.0/16", "169.254.0.0/16"}
    => output = FALSE

\* C17: validate_url returns true for every http/https URL whose host is a
\* public IPv4 literal or a public DNS name.
C17_PublicHostsAllowed ==
    /\ HttpUrlValidated
    /\ input.host.class \in {"public-ipv4", "public-dns"}
    => output = TRUE

\* http://10.example.com is rejected
C17_Witness ==
    /\ HttpUrlValidated
    /\ input.userinfo = "" /\ input.port = "" /\ input.tail = ""
    /\ input.host.text = << "10", ".", "example", ".", "com" >>
    /\ output = FALSE

\* the public IPv4 literals are all allowed
C17_PublicAddressesAllowed ==
    /\ HttpUrlValidated
    /\ input.host.class = "public-ipv4"
    => output = TRUE

(***************************************************************************)
(* The caller's profile                                                    *)
(***************************************************************************)
\* scrape_with_retry has returned or raised, and its caller had passed a profile
RetryDoneWithProfile == pc = "done" /\ caller_config # << >>

\* C18: scrape_with_retry does not modify the profile object its caller
\* passed: after the call every field of it, proxy included, has the value it
\* had before the call, for every proxy_list and every outcome.
C18_CallerProfileUntouched ==
    RetryDoneWithProfile => config = caller_config[1]

\* the caller's profile had no proxy and now names the last proxy of the pool
C18_Witness ==
    /\ RetryDoneWithProfile
    /\ result.kind = "return"
    /\ Len(proxy_list) = 2
    /\ caller_config[1].proxy = None
    /\ config.proxy = proxy_list[2]

\* without a proxy_list the caller's profile is left as it was
C18_UntouchedWithoutPool ==
    (RetryDoneWithProfile /\ proxy_list = << >>) => config = caller_config[1]

(***************************************************************************)
(* Selector extraction                                                     *)
(***************************************************************************)
SelectorApplied == fn = "_extract_single_selector"

\* the selector has the form sel@attr1@attr2
TwoAttributes(sel) ==
    /\ Len(sel) = 5
    /\ sel[2] = "@" /\ sel[4] = "@"
    /\ \A i \in {1, 3, 5} : sel[i] \notin {"@", "::html"}

\* the mapping {attr1: value, attr2: value} of one element
AttributeMapping(el, sel) ==
    PyDict(<< << sel[3], get_element_attribute(el, sel[3]) >>,
              << sel[5], get_element_attribute(el, sel[5]) >> >>)

\* C19: a selector sel@attr1@attr2 is evaluated in multi-attribute mode: the
\* base selector sel is matched against the page, and a mapping {attr1: value,
\* attr2: value} is returned for each matched element: a list of mappings for
\* several matches, one mapping for a single element.
C19_MultiAttributeMode ==
    (SelectorApplied /\ TwoAttributes(input.selector) /\ input.page.has_get) =>
        LET sel      == input.selector
            elements == input.page.reply.elements
        IN  /\ output.queried = << << sel[1] >> >>
            /\ input.page.reply.kind = "element" =>
                  output.value = AttributeMapping(elements[1], sel)
            /\ (input.page.reply.kind = "iterable" /\ Len(elements) > 0) =>
                  output.value = PyList([i \in 1..Len(elements) |->
                                           AttributeMapping(elements[i], sel)])

\* img@src@alt on a page that answers with one element: the engine was asked
\* for "img@src" and the value is the alt attribute alone
C19_Witness ==
    /\ SelectorApplied
    /\ input.selector = << "img", "@", "src", "@", "alt" >>
    /\ input.page.has_get /\ input.page.reply.kind = "element"
    /\ input.page.reply.elements = << Element(1) >>
    /\ output.queried = << << "img", "@", "src" >> >>
    /\ output.value = PyStr("alt 1")

\* what the selector extracts from element el alone
AloneValue(el) ==
    _extract_single_selector([has_get |-> TRUE,
                              reply |-> [kind |-> "element", elements |-> << el >>]],
                             input.selector).value

\* C20: the shape of what a selector extraction returns depends only on what
\* the engine's query returned: None if it returned nothing or an empty
\* iterable, or raised; a list with one extracted value per element, in match
\* order, if it returned a non-empty iterable; the bare extracted value, not a
\* list, if it returned one element.  So "a@href" gives a string for one
\* anchor and a list of 2 strings for two.
C20_ShapeFollowsQuery ==
    SelectorApplied =>
        LET reply    == input.page.reply
            elements == reply.elements
        IN  /\ (\/ ~ input.page.has_get
                \/ reply.kind \in {"raise", "None"}
                \/ reply.kind = "iterable" /\ elements = << >>) =>
                  output.value = PyNone
            /\ (input.page.has_get /\ reply.kind = "iterable" /\ elements # << >>) =>
                  /\ output.value.t = "list"
                  /\ output.value.n = Len(elements)
                  /\ \A i \in 1..Len(elements) :
                        output.value.items[i] = AloneValue(elements[i])
            /\ (input.page.has_get /\ reply.kind = "element") =>
                  /\ output.value.t \in {"str", "none"}
                  /\ input.selector = << "a" >> => output.value = get_element_text(elements[1])
            /\ (input.page.has_get /\ input.selector = << "a", "@", "href" >>) =>
                  /\ (reply.kind = "element" /\ elements[1].type = "Element") =>
                        output.value = elements[1].attributes["href"]
                  /\ (reply.kind = "iterable" /\ Len(elements) = 2) =>
                        output.value = PyList(<< elements[1].attributes["href"],
                                                 elements[2].attributes["href"] >>)

\* a@href on two anchors, in match order
C20_Witness ==
    /\ SelectorApplied
    /\ input.selector = << "a", "@", "href" >>
    /\ input.page.reply.kind = "iterable"
    /\ input.page.reply.elements = << Element(2), Element(1) >>
    /\ output.value = PyList(<< PyStr("href 2"), PyStr("href 1") >>)

\* a@href on one anchor returned as a single element
C20_WitnessScalar ==
    /\ SelectorApplied
    /\ input.selector = << "a", "@", "href" >>
    /\ input.page.reply.kind = "element"
    /\ output.value = PyStr("href 1")

\* an iterable of one element gives a list of one value
C20_WitnessListOfOne ==
    /\ SelectorApplied
    /\ input.page.reply.kind = "iterable"
    /\ Len(input.page.reply.elements) = 1
    /\ output.value.t = "list" /\ output.value.n = 1

(***************************************************************************)
(* format_response                                                         *)
(***************************************************************************)
Formatted == fn = "format_response"

\* C21: format_response never raises: for every page object, also one whose
\* DOM query, status, body or text is missing or raises, it returns a record
\* with url and timestamp set, and title is None whenever the DOM query
\* raises.
C21_FormatNeverRaises ==
    Formatted =>
        /\ ~ output.exc
        /\ output.v.url = input.url
        /\ output.v.timestamp # ""
        /\ ( \/ input.page.css_first.state = "raises"
             \/ /\ input.page.css_first.state = "value"
                /\ input.page.css_first.value = PyObject("get_all_text raises") ) =>
              output.v.title = PyNone

\* every capability of the page raises: the record has url, timestamp, a None
\* title, an empty text, and neither status nor html
C21_Witness ==
    /\ Formatted
    /\ \A name \in {"status", "css_first", "title", "body", "html_content",
                      "get_all_text", "text"} : input.page[name].state = "raises"
    /\ ~ output.exc
    /\ output.v.title = PyNone
    /\ output.v.text = PyStr("")
    /\ output.v.status = AbsentKey /\ output.v.html = AbsentKey

\* body is None and html_content raises: html stays None
C21_WitnessHtmlFallbackRaises ==
    /\ Formatted
    /\ input.page.body = ValueCap(PyNone)
    /\ input.page.html_content.state = "raises"
    /\ ~ output.exc
    /\ output.v.html = PyNone

(***************************************************************************)
(* The result records of the one-URL tools                                 *)
(***************************************************************************)
OneUrlTools == {"scrape_simple", "scrape_stealth", "scrape_session", "extract_structured"}

\* a one-URL tool has returned a record that reports an error
ErrorRecordReturned ==
    /\ tool \in OneUrlTools /\ tpc = "done"
    /\ response.kind = "record"
    /\ response.error # PyNone

ContentFields ==
    {"status_code", "title", "text", "html", "headers", "selectors", "cookies", "extracted"}

\* C22: every result record of scrape_simple, scrape_stealth, scrape_session
\* and extract_structured whose error is not None has all of its content
\* fields None, whether validation failed, the URL was rejected or the engine
\* raised.
C22_ErrorRecordsHaveNoContent ==
    ErrorRecordReturned => \A f \in ContentFields : response[f] = PyNone

\* scrape_session with a list as session_id: the page was fetched and
\* formatted, then storing the session raised TypeError
C22_Witness ==
    /\ ErrorRecordReturned
    /\ tool = "scrape_session"
    /\ args.session_id = PyList(<< PyStr("s1") >>)
    /\ response.status_code = PyInt(200)
    /\ response.html # PyNone

\* the error records of the other three tools, and those of scrape_session
\* when session_id can be a dict key, have no content
C22_NoContentWhenIdHashable ==
    (ErrorRecordReturned /\ Hashable(args.session_id)) =>
        \A f \in ContentFields : response[f] = PyNone

SessionResultReturned ==
    /\ tool = "scrape_session" /\ tpc = "done"
    /\ response.kind = "record"

\* the record carries the caller's session_id, or a generated one when the
\* caller gave None or the empty string
CarriesSessionId ==
    IF Truthy(args.session_id)
    THEN response.session_id = args.session_id
    ELSE IsStr(response.session_id) /\ response.session_id.s # ""

\* C23: every scrape_session result carries a session id: the caller's
\* session_id echoed back, or a freshly generated one when the caller gave
\* none; this holds for the results that report a validation error, a rejected
\* URL or a fetch error as well.
C23_EveryResultCarriesSessionId ==
    SessionResultReturned => CarriesSessionId

\* no session_id was given and the URL was rejected: session_id is None
C23_Witness ==
    /\ SessionResultReturned
    /\ args.session_id = PyNone
    /\ args.url = PyStr("http://localhost")
    /\ response.error # PyNone
    /\ response.session_id = PyNone

\* the empty string is echoed back with a validation error
C23_WitnessEmptyId ==
    /\ SessionResultReturned
    /\ args.session_id = PyStr("")
    /\ response.error # PyNone
    /\ response.session_id = PyStr("")

\* the results of the calls that passed validation carry a session id, fetch
\* errors included
C23_IdOncePastValidation ==
    (SessionResultReturned /\ ~ (ValidationFails \/ UrlDisallowed)) => CarriesSessionId

\* scrape_simple or scrape_stealth has built its profile and awaits
\* scrape_with_retry, which builds the engine options of every attempt from it
AwaitingScrape ==
    /\ tool \in {"scrape_simple", "scrape_stealth"}
    /\ tpc = "scrape"

EngineTimeout == to_scrapling_options(tconfig).timeout

\* C24: for every accepted tool timeout the per-attempt timeout that
\* scrape_simple and scrape_stealth hand to the engine equals the tool's timeout
\* argument in milliseconds: the conversions between tool argument, profile and
\* engine options lose nothing.
C24_TimeoutReachesEngineUnchanged ==
    AwaitingScrape => EngineTimeout = args.timeout.n

\* a timeout of 1500 ms reaches the engine as 1000 ms
C24_Witness ==
    /\ AwaitingScrape
    /\ args.timeout = PyInt(1500)
    /\ tconfig.timeout = 1
    /\ EngineTimeout = 1000

\* the engine gets the tool's timeout rounded down to whole seconds, which is
\* the argument itself for multiples of 1000
C24_TimeoutRoundedDownToSeconds ==
    AwaitingScrape =>
        /\ EngineTimeout = (args.timeout.n \div 1000) * 1000
        /\ (args.timeout.n % 1000 = 0 => EngineTimeout = args.timeout.n)

\* a timeout of whole seconds reaches the engine unchanged
C24_WitnessWholeSeconds ==
    /\ AwaitingScrape
    /\ tool = "scrape_stealth"
    /\ args.timeout = PyInt(30000)
    /\ EngineTimeout = 30000

\* the object a handle refers to
ProfileOf(h) == profiles[h.ref]

\* C25: every profile built from preset "maximum" has solve_cloudflare and
\* geoip true, every profile built from preset "minimal" has humanize false
\* and block_images true, and each call of a preset constructor returns a
\* fresh profile: an object no earlier call returned, with the preset's
\* values whatever was assigned to the profiles returned before.
C25_PresetsFixedAndFresh ==
    \A i \in 1..Len(handles) :
        LET h == handles[i]
        IN  /\ h.level = "maximum" => h.returned.solve_cloudflare /\ h.returned.geoip
            /\ h.level = "minimal" => ~ h.returned.humanize /\ h.returned.block_images
            /\ h.returned = _get_stealth_config_by_level(h.level)
            /\ \A j \in 1..(i - 1) : handles[j].ref # h.ref

\* "maximum" was built twice, solve_cloudflare and geoip of the first profile
\* were set to false before the second call, and the second profile still has
\* both true
C25_Witness ==
    /\ Len(handles) = 2
    /\ handles[1].level = "maximum" /\ handles[2].level = "maximum"
    /\ ~ ProfileOf(handles[1]).solve_cloudflare
    /\ ~ ProfileOf(handles[1]).geoip
    /\ ProfileOf(handles[2]).solve_cloudflare
    /\ ProfileOf(handles[2]).geoip

\* "minimal" was built twice and the first profile changed in between
C25_WitnessMinimal ==
    /\ Len(handles) = 2
    /\ handles[1].level = "minimal" /\ handles[2].level = "minimal"
    /\ ProfileOf(handles[1]).humanize
    /\ ~ ProfileOf(handles[1]).block_images
    /\ ~ ProfileOf(handles[2]).humanize
    /\ ProfileOf(handles[2]).block_images

(***************************************************************************)
(* Properties of the retry loop's proxy index, challenge handling and      *)
(* engine sessions.                                                        *)
(***************************************************************************)
\* this step ends an attempt of scrape_with_retry
AttemptEnds == Len(trace'.attempts) = Len(trace.attempts) + 1

\* how the attempt that this step ends has ended
EndedAs == trace'.attempts[Len(trace'.attempts)].ended

BlockedWithPool == AttemptEnds /\ EndedAs = "BlockedError" /\ Len(proxy_list) > 1

\* the index changes only when an attempt ends in BlockedError with a pool of
\* more than one entry, then by one modulo the pool size; with an empty pool
\* the profile is not assigned to
ProxyIndexFrame ==
    /\ current_proxy_idx' # current_proxy_idx => BlockedWithPool
    /\ BlockedWithPool => current_proxy_idx' = (current_proxy_idx + 1) % Len(proxy_list)
    /\ (AttemptEnds /\ ~ BlockedWithPool) => current_proxy_idx' = current_proxy_idx
    /\ (pc # "idle" /\ Len(proxy_list) = 0) => config' = config

\* C26 as stated: within scrape_with_retry the proxy index changes only when
\* an attempt ends in BlockedError and the pool has more than one entry,
\* advancing by one modulo the pool size; it always lies in 0..len(pool)-1, and
\* with an empty pool the profile's proxy is never assigned.
C26_ProxyIndexAlwaysInPool ==
    [][ /\ ProxyIndexFrame
        /\ pc' # "idle" => current_proxy_idx' \in 0..(Len(proxy_list') - 1) ]_vars

\* C26: the frame of the proxy index as above; the index lies in
\* 0..len(pool)-1 whenever the pool is not empty, and stays 0 with an empty
\* pool, where 0..len(pool)-1 is empty.
C26_ProxyIndexFrameAndRange ==
    [][ /\ ProxyIndexFrame
        /\ pc' # "idle" =>
              IF Len(proxy_list') > 0
              THEN current_proxy_idx' \in 0..(Len(proxy_list') - 1)
              ELSE current_proxy_idx' = 0 ]_vars

\* blocked, then challenged, with a pool of three: the index advanced once
C26_Witness ==
    /\ Len(proxy_list) = 3
    /\ Len(trace.attempts) = 2
    /\ trace.attempts[1].ended = "BlockedError"
    /\ trace.attempts[2].ended = "CloudflareError"
    /\ current_proxy_idx = 1

\* three blocked attempts with a pool of three: the index is back at 0
C26_WitnessWrapAround ==
    /\ Len(proxy_list) = 3
    /\ Len(trace.attempts) = 3
    /\ \A i \in 1..3 : trace.attempts[i].ended = "BlockedError"
    /\ current_proxy_idx = 0

\* a blocked attempt with a pool of one, and one with no pool
C26_WitnessNoRotation ==
    /\ Len(proxy_list) \in {0, 1}
    /\ Len(trace.attempts) = 1
    /\ trace.attempts[1].ended = "BlockedError"
    /\ trace.attempts[1].proxy = (IF Len(proxy_list) = 0 THEN None ELSE proxy_list[1])
    /\ current_proxy_idx = 0
    /\ Len(proxy_list) = 0 => config.proxy = None

\* a step of scrape_with_retry
RetryStep == retryVars' # retryVars

\* the step is a fetch that returned a page
Fetched == pc \in {"fetch", "refetch"} /\ page' # page

SameSession ==
    /\ attempt' = attempt
    /\ trace'.opened = trace.opened
    /\ trace'.exited = trace.exited

\* C27: when the first fetch of an attempt returns a challenge page and
\* solve_cloudflare is true, the attempt sleeps the grace period and re-fetches
\* once in the same engine session; the challenge check is not repeated and
\* the attempt does not restart: the body returns the re-fetched page unless it
\* is classified blocked, and an attempt issues at most 2 fetches.
C27_ChallengeRefetchedOnce ==
    [][ RetryStep =>
        /\ (pc = "fetch" /\ Fetched /\ _detect_cloudflare(page') /\ config.solve_cloudflare)
              => pc' = "solve" /\ SameSession
        /\ pc' = "solve" => pc = "fetch" /\ _detect_cloudflare(page') /\ config.solve_cloudflare
        /\ pc = "solve" =>
              /\ pc' = "refetch" /\ SameSession
              /\ trace'.grace = trace.grace + 1
              /\ trace'.fetches = trace.fetches
        /\ pc' = "refetch" => pc = "solve"
        /\ pc = "refetch" =>
              /\ pc' = "exit" /\ SameSession
              /\ trace'.fetches = trace.fetches + 1
              /\ trace'.grace = trace.grace
              /\ Fetched =>
                    /\ page'.fetch = 2 /\ page'.attempt = attempt
                    /\ pending' = IF _detect_block(page') THEN "BlockedError" ELSE "return"
        /\ pc' = "fetch" => pc = "attempt" /\ trace'.opened = trace.opened + 1
        /\ trace'.fetches # trace.fetches =>
              /\ pc \in {"fetch", "refetch"}
              /\ trace'.fetches = trace.fetches + 1
        /\ (pc = "exit" /\ result'.kind = "return") => result'.page = page ]_vars

\* the first fetch gave a challenge page, the re-fetch gave a challenge page
\* again, and that page was returned after one grace sleep and two fetches
C27_Witness ==
    /\ pc = "done"
    /\ config.solve_cloudflare
    /\ result.kind = "return"
    /\ result.page.fetch = 2
    /\ _detect_cloudflare(result.page) /\ ~ _detect_block(result.page)
    /\ trace.opened = 1 /\ trace.exited = 1
    /\ trace.grace = 1
    /\ trace.fetches = 2

\* the re-fetched page was classified blocked
C27_WitnessBlocked ==
    /\ config.solve_cloudflare
    /\ trace.opened = 1 /\ trace.exited = 1
    /\ trace.grace = 1
    /\ trace.fetches = 2
    /\ Len(trace.attempts) = 1
    /\ trace.attempts[1].ended = "BlockedError"

\* a page that matches both the challenge and the block signatures
MatchesBoth(p) == _detect_cloudflare(p) /\ _detect_block(p)

\* C28: within an attempt the challenge check runs before the block check: a
\* fetched page that matches both signatures, with solve_cloudflare false, ends
\* the attempt as challenged (CloudflareError) and not as blocked, and that
\* attempt does not advance the proxy index.
C28_ChallengeCheckedBeforeBlock ==
    [][ RetryStep =>
        /\ (pc = "fetch" /\ Fetched /\ MatchesBoth(page') /\ ~ config.solve_cloudflare)
              => pc' = "exit" /\ pending' = "CloudflareError"
        /\ (pc = "exit" /\ page.fetch = 1 /\ MatchesBoth(page) /\ ~ config.solve_cloudflare)
              => /\ AttemptEnds
                 /\ EndedAs # "BlockedError"
                 /\ EndedAs \in EngineOutcomes \ {"ok"} \/ EndedAs = "CloudflareError"
                 /\ last_error' = ExceptClause(EndedAs, config)
                 /\ current_proxy_idx' = current_proxy_idx ]_vars

\* the first fetch gave a page with both signatures, solve_cloudflare is false
\* and the pool has more than one entry: the body raised CloudflareError
C28_Witness ==
    /\ pc = "exit"
    /\ ~ config.solve_cloudflare
    /\ Len(proxy_list) > 1
    /\ page.fetch = 1
    /\ MatchesBoth(page)
    /\ pending = "CloudflareError"

\* a blocked attempt moved the index to 1, and the following challenged
\* attempt left it there
C28_WitnessIndexKept ==
    /\ ~ config.solve_cloudflare
    /\ Len(proxy_list) = 3
    /\ Len(trace.attempts) = 2
    /\ trace.attempts[1].ended = "BlockedError"
    /\ trace.attempts[2].ended = "CloudflareError"
    /\ last_error.type = "CloudflareError"
    /\ current_proxy_idx = 1

\* scrape_with_retry has raised for a URL that validate_url allows
RetryFailedForAllowedUrl ==
    /\ pc = "done"
    /\ result.kind = "raise"
    /\ validate_url(url)

\* the error raised is the one the except clause of the last attempt stored
CapturedFromAttempt ==
    /\ Len(trace.attempts) >= 1
    /\ result.error = ExceptClause(trace.attempts[Len(trace.attempts)].ended, config)
    /\ result.error.msg # "Max retries exceeded"

\* C29: whenever scrape_with_retry fails for an allowed URL, the error it
\* raises was captured from an attempt it made: the default ScrapeError
\* ("Max retries exceeded") is never the outcome of a call, for every
\* max_retries the settings accept, 0 included.
C29_ErrorCapturedFromAnAttempt ==
    RetryFailedForAllowedUrl => CapturedFromAttempt

\* max_retries = 0: no attempt, no session, and the default error is raised
C29_Witness ==
    /\ RetryFailedForAllowedUrl
    /\ max_retries = 0
    /\ trace.attempts = << >>
    /\ trace.opened = 0
    /\ result.error = [type |-> "ScrapeError", msg |-> "Max retries exceeded"]

\* with max_retries of 1 or more the error comes from the last attempt
C29_CapturedWhenAttemptsAllowed ==
    (RetryFailedForAllowedUrl /\ max_retries >= 1) => CapturedFromAttempt

\* the per-attempt sessions of the call that were entered and not yet exited
OpenAttemptSessions == trace.opened - trace.exited

InsideSession == pc \in {"fetch", "solve", "refetch", "exit"}

\* C30: each attempt of scrape_with_retry opens its own engine session and
\* exits it before the following backoff sleep, the next attempt and the
\* function's return or raise: at most one per-attempt session is open at any
\* time, attempts never overlap, and none remains open when the call ends,
\* whatever each attempt's outcome.
C30_OneSessionPerAttempt ==
    /\ OpenAttemptSessions \in {0, 1}
    /\ OpenAttemptSessions = 1 <=> InsideSession
    /\ pc \in {"attempt", "backoff", "done"} => OpenAttemptSessions = 0
    /\ trace.exited <= Len(trace.attempts)
    /\ InsideSession => Len(trace.attempts) = attempt /\ trace.opened <= attempt + 1
    /\ trace.backoff <= Len(trace.attempts)
    /\ pc = "done" => trace.opened <= max_retries

\* three attempts, each in a session of its own, that ended blocked, timed out
\* and with an error; all three sessions are exited when the call raises
C30_Witness ==
    /\ pc = "done"
    /\ result.kind = "raise"
    /\ Len(trace.attempts) = 3
    /\ trace.attempts[1].ended = "BlockedError"
    /\ trace.attempts[2].ended = "asyncio.TimeoutError"
    /\ trace.attempts[3].ended = "Exception"
    /\ trace.opened = 3
    /\ trace.exited = 3
    /\ trace.backoff = 2

\* the backoff sleep after a failed attempt runs with no session open
C30_WitnessBackoff ==
    /\ pc = "backoff"
    /\ trace.opened = 1
    /\ trace.exited = 1

(***************************************************************************)
(* Termination of scrape_with_retry.                                       *)
(***************************************************************************)
RetryRunning == pc \notin {"idle", "done"}

RetryEnded == pc = "done" /\ result.kind \in {"return", "raise"}

\* what the call has done so far stays within its budget of attempts and
\* fetches
WithinAttempts ==
    /\ Len(trace.attempts) <= max_retries
    /\ trace.opened <= max_retries
    /\ trace.fetches <= 2 * max_retries

C31_WitnessNoAttempt ==
    /\ RetryEnded
    /\ validate_url(url)
    /\ max_retries = 0
    /\ trace.backoff = 0
    /\ trace.fetches = 0

(***************************************************************************)
(* Properties of the session registry under concurrent calls.              *)
(***************************************************************************)
\* task a is a scrape_session call whose fetch is in flight on session r
FetchInFlight(a, r) ==
    /\ tasks[a].op = "scrape_session"
    /\ tasks[a].pc = "fetch"
    /\ tasks[a].session = r

\* this step is a scrape_session call b calling __aexit__ of session r
ExitCalledBy(b, r) ==
    /\ Len(exit_log') = Len(exit_log) + 1
    /\ exit_log'[Len(exit_log')] = [ref |-> r, by |-> b, op |-> "scrape_session"]

\* C32: concurrent scrape_session calls that use different session ids do not
\* interfere: under any interleaving at await points, no call exits the
\* engine session on which another call's fetch is still in flight.
C32_NoExitUnderAFetchInFlight ==
    [][ \A a \in Tasks, b \in Tasks, r \in 1..Len(engine_sessions) :
            a # b => ~ (FetchInFlight(a, r) /\ ExitCalledBy(b, r)) ]_vars

\* one scrape_session call is fetching on the session that another
\* scrape_session call, made with another stealth level, is exiting
C32_Witness ==
    \E a \in Tasks, b \in Tasks :
        /\ a # b
        /\ FetchInFlight(a, tasks[a].session)
        /\ tasks[b].op = "scrape_session"
        /\ tasks[b].pc = "aexit"
        /\ tasks[b].target = tasks[a].session
        /\ tasks[b].config # tasks[a].config
        /\ ~ engine_sessions[tasks[a].session].exited

\* the exit has ended and the fetch is still in flight on the exited session
C32_WitnessExited ==
    \E a \in Tasks, b \in Tasks :
        /\ a # b
        /\ FetchInFlight(a, tasks[a].session)
        /\ tasks[b].op = "scrape_session"
        /\ tasks[b].pc = "start"
        /\ engine_sessions[tasks[a].session].exited
        /\ \E i \in 1..Len(exit_log) :
              exit_log[i] = [ref |-> tasks[a].session, by |-> b, op |-> "scrape_session"]

\* engine session r has been started and its __aexit__ has not ended
StartedNotExited(r) ==
    /\ engine_sessions[r].playwright
    /\ ~ engine_sessions[r].exited

\* how many times __aexit__ of session r was called
ExitCalls(r) == Cardinality({ i \in 1..Len(exit_log) : exit_log[i].ref = r })

\* C33: under any interleaving of concurrent get_session and close_session
\* calls at their await points, the registry holds at most one open session:
\* every engine session that has been started and not yet exited is the one
\* in the global slot, and no session is exited twice.
C33_OneOpenSessionNoDoubleExit ==
    \A r \in 1..Len(engine_sessions) :
        /\ StartedNotExited(r) => r = _session
        /\ ExitCalls(r) <= 1

\* all calls have ended, and a session that was started and never exited is
\* not the one in the global slot
C33_Witness ==
    /\ \A t \in Tasks : tasks[t].pc = "done" /\ tasks[t].op \in {"get_session", "close_session"}
    /\ \E r \in 1..Len(engine_sessions) :
          /\ StartedNotExited(r)
          /\ ExitCalls(r) = 0
          /\ r # _session
          /\ _session # 0

\* two close_session calls exited the same session
C33_WitnessExitedTwice ==
    \E r \in 1..Len(engine_sessions) :
        /\ ExitCalls(r) = 2
        /\ \A i \in 1..Len(exit_log) : exit_log[i].op = "close_session"
        /\ engine_sessions[r].exited

(***************************************************************************)
(* Pages that are handed back.                                             *)
(***************************************************************************)
\* C34: every page that scrape_with_retry returns is one that _detect_block
\* does not match, and, when solve_cloudflare is false, also one that
\* _detect_cloudflare does not match.
C34_ReturnedPageNotBlocked ==
    (pc = "done" /\ result.kind = "return") =>
        /\ ~ _detect_block(result.page)
        /\ ~ config.solve_cloudflare => ~ _detect_cloudflare(result.page)

\* solve_cloudflare is false, the first attempt ended blocked, the second
\* challenged, and the third returned a page matching neither signature
C34_Witness ==
    /\ pc = "done"
    /\ result.kind = "return"
    /\ ~ config.solve_cloudflare
    /\ Len(trace.attempts) = 3
    /\ trace.attempts[1].ended = "BlockedError"
    /\ trace.attempts[2].ended = "CloudflareError"
    /\ result.page.attempt = 2
    /\ ~ _detect_block(result.page) /\ ~ _detect_cloudflare(result.page)

\* with solve_cloudflare true the page returned after the re-fetch may match
\* the challenge signature, and does not match the block signature
C34_WitnessSolved ==
    /\ pc = "done"
    /\ result.kind = "return"
    /\ config.solve_cloudflare
    /\ Len(trace.attempts) = 2
    /\ trace.attempts[1].ended = "BlockedError"
    /\ result.page.fetch = 2
    /\ _detect_cloudflare(result.page) /\ ~ _detect_block(result.page)

\* scrape_session has returned a record without error, built from tpage
SessionSucceeded ==
    /\ tool = "scrape_session" /\ tpc = "done"
    /\ response.kind = "record"
    /\ response.error = PyNone

\* C35: no tool returns a success record (error None) built from a page that
\* _detect_block matches or, when solve_cloudflare is off, that
\* _detect_cloudflare matches; scrape_session included.  (The other tools
\* build their records from the pages scrape_with_retry returns.)
C35_NoSuccessFromBlockedPage ==
    SessionSucceeded =>
        /\ ~ _detect_block(tpage)
        /\ ~ tconfig.solve_cloudflare => ~ _detect_cloudflare(tpage)

\* scrape_session fetched a page with a block signature and returned it as a
\* success, with its status, title, text and html
C35_Witness ==
    /\ SessionSucceeded
    /\ _detect_block(tpage)
    /\ ~ _detect_cloudflare(tpage)
    /\ response.status_code = PyInt(200)
    /\ response.html # PyNone

\* scrape_session does make the challenge check
C35_SessionChallengeChecked ==
    (SessionSucceeded /\ ~ tconfig.solve_cloudflare) => ~ _detect_cloudflare(tpage)

\* a scrape_session call has returned and no cleanup is under way: no call of
\* get_session or close_session is in progress
RegistryAtRest ==
    /\ tool = "scrape_session" /\ tpc = "done"
    /\ shutdown = "none"

\* the held session was built from the cached profile
HeldFromCache ==
    (_session # 0 /\ _config_cache # << >>) =>
        engine_sessions[_session].options = to_scrapling_options(_config_cache[1])

\* C36: between calls the global session slot and its cached profile are set
\* or empty together: _session is None exactly when _config_cache is None, and
\* a held session was created from the cached profile; also after calls in
\* which the engine's start or close raised.
C36_SlotAndCacheTogether ==
    RegistryAtRest =>
        /\ (_session = 0) <=> (_config_cache = << >>)
        /\ HeldFromCache

\* start() raised in the call that has just returned: the slot holds the
\* session that never started and the cache is empty
C36_Witness ==
    /\ RegistryAtRest
    /\ response.kind = "record" /\ response.error # PyNone
    /\ Len(ttrace) >= 1
    /\ ttrace[Len(ttrace)] = EngineEvent("start", "Exception")
    /\ _session # 0
    /\ ~ engine_sessions[_session].playwright
    /\ _config_cache = << >>

\* what does hold at every moment of sequential calls: a cached profile comes
\* with a held session built from it
C36_CacheImpliesSession ==
    _config_cache # << >> => (_session # 0 /\ HeldFromCache)

(***************************************************************************)
(* validate_url on URLs of the same scheme and host.                       *)
(***************************************************************************)
\* URLs with the scheme and the host of u
SameSchemeAndHost(u) == { p \in UrlParts : p.scheme = u.scheme /\ p.host = u.host }

\* C37: validate_url's verdict depends only on the URL's scheme and host: two
\* URLs with the same scheme and host that differ only in userinfo, port,
\* path, query or fragment receive the same verdict.
C37_VerdictByHostAlone ==
    fn = "validate_url" =>
        \A p \in SameSchemeAndHost(input) : ValidateParsed(urlparse(p)) = output

\* http://user@localhost is allowed while http://localhost is rejected
C37_Witness ==
    /\ fn = "validate_url"
    /\ input.scheme = "http"
    /\ input.host.text = << "localhost" >>
    /\ input.userinfo = "user"
    /\ input.port = "" /\ input.tail = ""
    /\ output = TRUE
    /\ ValidateParsed(urlparse([input EXCEPT !.userinfo = ""])) = FALSE

\* port, path and query do not change the verdict
C37_VerdictUpToPortAndPath ==
    fn = "validate_url" =>
        \A p \in SameSchemeAndHost(input) :
            p.userinfo = input.userinfo => ValidateParsed(urlparse(p)) = output

(***************************************************************************)
(* The mapping extract_selectors returns.                                  *)
(***************************************************************************)
\* the keys of a dict
Keys(d) == { d.items[i].s : i \in 1..Len(d.items) }

\* extract_structured has returned what extract_selectors gave for the page
Extracted ==
    /\ tool = "extract_structured" /\ tpc = "done"
    /\ response.kind = "record"
    /\ response.error = PyNone

\* C38: extract_selectors returns a mapping with exactly one entry for every
\* key of the input selector map, for every page and every selector value; a
\* problem with one key does not remove the entries of the other keys.
C38_OneEntryPerSelectorKey ==
    Extracted =>
        /\ Keys(response.extracted) = Keys(args.selectors)
        /\ Len(response.extracted.items) = Len(args.selectors.items)

\* selectors {"title": "h1", "n": 5, "link": "a@href"}: only "title" comes back
C38_Witness ==
    /\ Extracted
    /\ Keys(args.selectors) = {"title", "n", "link"}
    /\ Keys(response.extracted) = {"title"}

\* when every selector is a string, every key has its entry
C38_OneEntryPerKeyOfStrings ==
    (Extracted /\ \A i \in 1..Len(args.selectors.items) :
                     IsStr(args.selectors.items[i].items[1]))
    => /\ Keys(response.extracted) = Keys(args.selectors)
       /\ Len(response.extracted.items) = Len(args.selectors.items)

(***************************************************************************)
(* The profile scrape_stealth hands to scrape_with_retry.                  *)
(***************************************************************************)
\* scrape_stealth has passed validation and awaits scrape_with_retry(config)
StealthAwaitingScrape == tool = "scrape_stealth" /\ tpc = "scrape"

\* the preset a level names, whatever its letter case
NamedPreset ==
    CASE LowerStr(args.stealth_level.s) = "minimal"  -> get_minimal_stealth
      [] LowerStr(args.stealth_level.s) = "standard" -> get_standard_stealth
      [] LowerStr(args.stealth_level.s) = "maximum"  -> get_maximum_stealth

Overridden == {"solve_cloudflare", "network_idle", "load_dom", "timeout", "proxy"}

C39_WitnessProxy ==
    /\ StealthAwaitingScrape
    /\ args.proxy = PyStr("http://proxy1:8080")
    /\ tconfig.proxy = "http://proxy1:8080"
    /\ NamedPreset.proxy = None

=============================================================================
